---- MODULE Spec2Model ----
(***************************************************************************)
(* The note-processing request lifecycle of the SpeechCraft processing     *)
(* server: ProcessingController.processNote / getProcessingStatus, the     *)
(* store service (SupabaseService) and the completion service             *)
(* (OpenAIService).  Every request runs as an asynchronous task; a step    *)
(* of the model is one awaited operation together with the synchronous     *)
(* code that follows it up to the next await.                              *)
(***************************************************************************)
EXTENDS Integers, Sequences, FiniteSets, TLC

\* ---------------------------------------------------------------- bounds
MaxCalls  == 2      \* processNote requests started in one behaviour
MaxTokens == 1      \* largest total_tokens the completion service reports
MaxTime   == 1      \* largest elapsed processing time (seconds)
FreeLimit == 1      \* monthly limit enforced by check_user_limits

\* ------------------------------------------------------------ universes
Calls    == {"c1", "c2"}            \* request tasks that may be in flight
NoteIds  == {"n1", "n2"}            \* notes in the store
Users    == {"u1", "u2"}
NoId     == "none"                  \* req.body.noteId absent
AbsentId == "n9"                    \* an id the store has no row for
ReqIds   == NoteIds \cup {NoId, AbsentId}

OwnerOf(n) == IF n = "n1" THEN "u1" ELSE "u2"

NullNum  == -1                      \* SQL NULL in a numeric column
NullText == <<"NULL">>              \* SQL NULL in a text column
NoRec    == [none |-> TRUE]         \* an unset local / absent body

\* Texts are sequences of characters over a small alphabet; the notes the
\* store may hold for n1 (text, category).  n2 is a general note.
NoteSamples == { << <<" ", "a", ".", "b", " ">>, "todo" >>,
                 << <<"a">>, "recipe" >>,
                 << <<>>, "meeting" >> }

LimitMessage ==
  <<"\n\n**Note: Monthly processing limit reached. Please upgrade to premium.**">>

\* ---------------------------------------------------------------- state
VARIABLES
  notes,          \* the notes table: id -> row
  profiles,       \* the profiles table: user -> row
  pc,             \* per request task: the await it is suspended at
  req,            \* per request task: req.body.noteId
  reqType,        \* per request task: req.body.noteType (speechcraft-processor)
  note,           \* per request task: the row returned by getNoteById
  userLimits,     \* per request task: the value returned by checkUserLimits
  result,         \* per request task: the value returned by openaiService.processNote
  thrown,         \* per request task: an exception reached the catch block
  resp,           \* per request task: the HTTP response sent
  log,            \* per request task: store/completion operations attempted
  started,        \* number of processNote requests started so far
  statusReq,      \* the noteId of the status request being served, or "idle"
  statusResp,     \* the response of getProcessingStatus to that request
  secret,         \* process.env.API_SECRET_KEY
  globalHits,     \* globalRateLimit's store: client IP -> hits in its window
  procHits,       \* processingRateLimit's store: key -> hits in its window
  globalPassed,   \* per IP: requests of the window that got past globalRateLimit
  procPassed,     \* per key: requests of the window that got past processingRateLimit
  fd,             \* the last request the server received and how it was answered
  stats,          \* the last GET /api/stats request and its answer
  testMode,       \* speechcraft-processor: which services were built without credentials
  storage,        \* the device's AsyncStorage: the value under the key 'notes'
  listNotes,      \* list screen: the state `notes`
  loading,        \* list screen: loadNotes awaits its setItem of the mock notes
  deleting,       \* list screen: the list deleteNote's setItem is about to write
  platform,       \* recording screen: Platform.OS and the browser's abilities
  isRecording,    \* recording screen: the state `isRecording`
  speechText,     \* recording screen: the state `speechText`, as its words
  timers,         \* recording screen: pending setTimeout(addWord, 300) calls
  stopping,       \* recording screen: where stopRecording's async part stands
  issued,         \* number of note ids uuid.v4() has issued
  savedIds,       \* ids whose saveNote has written the list
  deletedIds      \* ids whose deletion the user confirmed

fdVars == <<secret, globalHits, procHits, globalPassed, procPassed, fd>>

clientVars == <<storage, listNotes, loading, deleting, platform, isRecording, speechText,
                timers, stopping, issued, savedIds, deletedIds>>

serverVars == <<notes, profiles, pc, req, reqType, note, userLimits, result, thrown, resp,
                log, started, statusReq, statusResp, fdVars, stats, testMode>>

vars == <<notes, profiles, pc, req, reqType, note, userLimits, result, thrown, resp,
          log, started, statusReq, statusResp, fdVars, stats, testMode, clientVars>>

\* --------------------------------------------------- OpenAIService helpers
IsSpace(ch) == ch = " "

RECURSIVE TrimLeft(_)
TrimLeft(s) ==
  IF s = <<>> THEN <<>>
  ELSE IF IsSpace(Head(s)) THEN TrimLeft(Tail(s)) ELSE s

RECURSIVE TrimRight(_)
TrimRight(s) ==
  IF s = <<>> THEN <<>>
  ELSE IF IsSpace(s[Len(s)]) THEN TrimRight(SubSeq(s, 1, Len(s) - 1)) ELSE s

Trim(s) == TrimRight(TrimLeft(s))

\* cleanText.replace(/[.!?]/g, '\n• ')
RECURSIVE ReplacePunct(_)
ReplacePunct(s) ==
  IF s = <<>> THEN <<>>
  ELSE IF Head(s) \in {".", "!", "?"}
       THEN <<"\n", "*", " ">> \o ReplacePunct(Tail(s))
       ELSE <<Head(s)>> \o ReplacePunct(Tail(s))

\* The constant parts of the fallback templates, cut at every blank and at
\* the final full stop so that a text of blanks and punctuation is found in
\* them exactly where the string holds it.
FallbackTail ==
  <<"\n\n**Note:**", " ", "Enhanced", " ", "formatting", " ", "temporarily", " ",
    "unavailable", ".">>

\* Variant: the template alone, without the note's text.
_createFallbackTextBare(originalText, noteType) ==
  <<"#", " ", "Note\n\n">> \o FallbackTail

_createFallbackText(originalText, noteType) ==
  LET cleanText == Trim(originalText) IN
  CASE noteType = "meeting" ->
         <<"#", " ", "Meeting", " ", "Notes\n\n**Discussion:**\n">> \o cleanText \o FallbackTail
    [] noteType = "todo" ->
         <<"#", " ", "Task", " ", "List\n\n", "*", " ">> \o ReplacePunct(cleanText) \o FallbackTail
    [] noteType = "idea" ->
         <<"#", " ", "Creative", " ", "Idea\n\n**Concept:**\n">> \o cleanText \o FallbackTail
    [] OTHER ->
         <<"#", " ", "Note\n\n">> \o cleanText \o FallbackTail

Prompts == {"meeting", "todo", "idea", "general"}

\* The values openaiService.processNote can return for a note: a success
\* carries the service's text, its token usage and the elapsed time; every
\* failure (rejected input, failed or malformed completion) is absorbed
\* into the fallback result, which carries no model name ("none").
OpenAISuccesses(originalText, noteType) ==
  IF Trim(originalText) = <<>> THEN {}
  ELSE { [processedText  |-> <<"AI:">> \o Trim(originalText),
          tokensUsed     |-> t,
          processingTime |-> d,
          success        |-> TRUE,
          model          |-> "gpt-3.5-turbo",
          noteType       |-> IF noteType \in Prompts THEN noteType ELSE "general"]
         : t \in 1..MaxTokens, d \in 1..MaxTime }

OpenAIFailures(originalText, noteType) ==
  { [processedText  |-> _createFallbackText(originalText,
                          IF Trim(originalText) # <<>> /\ noteType \notin Prompts
                          THEN "general" ELSE noteType),
     tokensUsed     |-> 0,
     processingTime |-> d,
     success        |-> FALSE,
     model          |-> "none",
     noteType       |-> IF Trim(originalText) # <<>> /\ noteType \notin Prompts
                        THEN "general" ELSE noteType]
    : d \in 1..MaxTime }

OpenAIProcessNote(originalText, noteType) ==
  OpenAISuccesses(originalText, noteType) \cup OpenAIFailures(originalText, noteType)

WarnsNever(originalText, noteType) == FALSE

\* logger.warn('Unknown note type ...'): issued after the text passed the
\* validation, when the category has no prompt.
Warns(originalText, noteType) ==
  Trim(originalText) # <<>> /\ noteType \notin Prompts

\* The operations openaiService.processNote leaves behind: the warning, if
\* any, and the completion attempt with its outcome.
OpenAIOps(id, originalText, noteType, r) ==
  (IF Warns(originalText, noteType)
   THEN << [op |-> "warn", arg |-> noteType, ok |-> TRUE] >> ELSE << >>)
  \o << [op |-> "openai", arg |-> id, ok |-> r.success] >>

\* ------------------------------------------------- SupabaseService (store)
\* updateNoteProcessing copies only the fields present in data.
UpdateData(row, data) ==
  [row EXCEPT
     !.processed_text    = IF "processedText" \in DOMAIN data THEN data.processedText ELSE @,
     !.processing_status = IF "status" \in DOMAIN data THEN data.status ELSE @,
     !.tokens_used       = IF "tokensUsed" \in DOMAIN data THEN data.tokensUsed ELSE @,
     !.processing_time   = IF "processingTime" \in DOMAIN data THEN data.processingTime ELSE @]

\* The row written by createNote: status pending, nothing processed yet.
NewNote(u, text, type) ==
  [user_id |-> u, original_text |-> text, note_type |-> type,
   processing_status |-> "pending", processed_text |-> NullText,
   tokens_used |-> NullNum, processing_time |-> NullNum]

\* check_user_limits is a routine of the database: the limit is reached when
\* the monthly counter has reached the tier's limit.
CheckUserLimits(profile) ==
  [limit_reached      |-> profile.monthly_note_count >= FreeLimit,
   monthly_note_count |-> profile.monthly_note_count,
   notes_remaining    |-> IF profile.monthly_note_count >= FreeLimit THEN 0
                          ELSE FreeLimit - profile.monthly_note_count,
   subscription_tier  |-> profile.subscription_tier]

\* increment_note_count is a routine of the database: an atomic +1.
IncrementNoteCount(profile) ==
  [profile EXCEPT !.monthly_note_count = @ + 1]

\* ------------------------------------------- ProcessingController helpers
AlreadyProcessedOrFailed(row) ==
  row.processing_status \in {"completed", "failed"}

AlreadyProcessedTypo(row) == row.processing_status = "complete"

AlreadyProcessed(row) == row.processing_status = "completed"

AlreadyProcessedResponse(id, row) ==
  [code |-> 200, success |-> TRUE, error |-> "none",
   data |-> [noteId |-> id, processedText |-> row.processed_text,
             tokensUsed |-> row.tokens_used,
             processingTime |-> row.processing_time,
             alreadyProcessed |-> TRUE]]

LimitDataNoText(row) ==
  [status |-> "failed", processedText |-> LimitMessage]

LimitData(row) ==
  [status |-> "failed", processedText |-> row.original_text \o LimitMessage]

\* Variant: the usage limit is reported as a server error.
LimitResponseAsError(limits) ==
  [code |-> 500, success |-> FALSE, error |-> "LIMIT_REACHED",
   data |-> [monthlyCount |-> limits.monthly_note_count,
             notesRemaining |-> limits.notes_remaining,
             subscriptionTier |-> limits.subscription_tier]]

LimitResponse(limits) ==
  [code |-> 429, success |-> FALSE, error |-> "LIMIT_REACHED",
   data |-> [monthlyCount |-> limits.monthly_note_count,
             notesRemaining |-> limits.notes_remaining,
             subscriptionTier |-> limits.subscription_tier]]

ProcessingDataPending == [status |-> "pending"]

ProcessingData == [status |-> "processing"]

FinalStatusCompleted(r) == "completed"

FinalStatus(r) == IF r.success THEN "completed" ELSE "failed"

FinalData(r) ==
  [processedText |-> r.processedText, status |-> FinalStatus(r),
   tokensUsed |-> r.tokensUsed, processingTime |-> r.processingTime]

ShouldIncrementAlways(r) == TRUE

ShouldIncrement(r) == r.success

ProcessedResponse(id, row, r) ==
  [code |-> 200, success |-> TRUE, error |-> "none",
   data |-> [noteId |-> id, originalText |-> row.original_text,
             processedText |-> r.processedText, noteType |-> row.note_type,
             processingStatus |-> FinalStatus(r), tokensUsed |-> r.tokensUsed,
             processingTime |-> r.processingTime, openaiSuccess |-> r.success,
             model |-> IF r.model = "none" THEN "fallback" ELSE r.model]]

CatchDataPending == [status |-> "pending"]

CatchData == [status |-> "failed"]

ErrorResponse(c, e) ==
  [code |-> c, success |-> FALSE, error |-> e, data |-> NoRec]

NotFoundResponseAsError == ErrorResponse(500, "PROCESSING_ERROR")

NotFoundResponse == ErrorResponse(404, "NOTE_NOT_FOUND")

Op(name, arg, ok) == [op |-> name, arg |-> arg, ok |-> ok]

\* ------------------------------------------------------- HTTP front door
\* Header values and keys are strings, kept as sequences of pieces so that
\* the prefix 'Bearer ' is one piece that replace() can remove.
Undefined == <<"undefined">>             \* an absent header / unset variable
SecretKey == <<"k1">>                    \* the configured API_SECRET_KEY
OtherKey  == <<"k2">>                    \* a key that is not the secret
Bearer    == "Bearer "

Ips == {"ip1", "ip2"}
Routes == {"process", "status", "health"}

\* JavaScript truthiness of a header value: neither undefined nor ''.
Truthy(v) == v # Undefined /\ v # <<>>

\* String.prototype.replace(piece, ''): the first occurrence is removed.
RECURSIVE RemoveFirst(_, _)
RemoveFirst(s, piece) ==
  IF s = <<>> THEN <<>>
  ELSE IF Head(s) = piece THEN Tail(s)
       ELSE <<Head(s)>> \o RemoveFirst(Tail(s), piece)

\* req.headers['x-api-key'] || req.headers['authorization']?.replace('Bearer ', '')
ExtractKey(r) ==
  IF Truthy(r.xkey) THEN r.xkey
  ELSE IF r.auth = Undefined THEN Undefined
       ELSE RemoveFirst(r.auth, Bearer)

Request(ip, route, xkey, auth) ==
  [ip |-> ip, route |-> route, xkey |-> xkey, auth |-> auth]

\* The requests the first client sends: every route, the key in either
\* header, absent, empty and wrong.
Ip1Requests ==
  { Request("ip1", "process", SecretKey, Undefined),
    Request("ip1", "health",  Undefined, Undefined),
    Request("ip1", "status",  Undefined, Undefined),
    Request("ip1", "status",  Undefined, <<Bearer>> \o SecretKey),
    Request("ip1", "status",  Undefined, <<Bearer>>),
    Request("ip1", "status",  OtherKey,  <<Bearer>> \o SecretKey) }

\* The requests a second client sends to the processing route: with the
\* secret, with no key and with a wrong key.
Ip2Requests ==
  { Request("ip2", "process", Undefined, <<Bearer>> \o SecretKey),
    Request("ip2", "process", Undefined, Undefined),
    Request("ip2", "process", OtherKey,  Undefined) }

Requests == Ip1Requests \cup Ip2Requests

GlobalMax == 20
ProcessingMax == 10

\* Variant: one request more is let through.
RateLimitPassesOneMore(hits, max) == hits <= max + 1

\* express-rate-limit counts the request, then lets it pass while the count
\* of its window has not exceeded max.
RateLimitPasses(hits, max) == hits <= max

\* A store's count after one more hit; counts beyond max + 1 are not told apart.
Bump(hits, max) == IF hits > max THEN hits ELSE hits + 1

\* globalRateLimit has no keyGenerator: the key is req.ip.
GlobalKey(r) == r.ip

\* processingRateLimit's keyGenerator.
ProcessingKey(r) ==
  LET apiKey == ExtractKey(r) IN
  IF Truthy(apiKey) THEN <<"api_key", apiKey>> ELSE <<"ip", <<r.ip>> >>

\* The requests to POST /api/process that are followed into processNote.
EntryRequests ==
  { Request("ip1", "process", SecretKey, Undefined),
    Request("ip1", "process", Undefined, Undefined),
    Request("ip1", "process", OtherKey,  Undefined) }

ProcessingKeys ==
  { ProcessingKey(r) : r \in { q \in Requests \cup EntryRequests : q.route = "process" } }

\* authenticatedRateLimit: the limit it notes on the request.
authenticatedRateLimit(authenticated) == IF authenticated THEN 100 ELSE 20

Answer(stage, status, error) == [stage |-> stage, status |-> status, error |-> error]

\* A middleware that called next().
NextMw == Answer("next", 0, "none")

\* Variant: a server without secret lets every key through.
apiKeyAuthOpenWithoutSecret(r, expectedApiKey) ==
  LET apiKey == ExtractKey(r) IN
  IF ~Truthy(apiKey) THEN Answer("apiKeyAuth", 401, "MISSING_API_KEY")
  ELSE IF Truthy(expectedApiKey) /\ apiKey # expectedApiKey
       THEN Answer("apiKeyAuth", 401, "INVALID_API_KEY")
       ELSE NextMw

\* Variant: any key is accepted.
apiKeyAuthAnyKey(r, expectedApiKey) ==
  IF ~Truthy(ExtractKey(r)) THEN Answer("apiKeyAuth", 401, "MISSING_API_KEY")
  ELSE NextMw

apiKeyAuth(r, expectedApiKey) ==
  LET apiKey == ExtractKey(r) IN
  IF ~Truthy(apiKey) THEN Answer("apiKeyAuth", 401, "MISSING_API_KEY")
  ELSE IF ~Truthy(expectedApiKey) THEN Answer("apiKeyAuth", 500, "CONFIG_ERROR")
  ELSE IF apiKey # expectedApiKey THEN Answer("apiKeyAuth", 401, "INVALID_API_KEY")
  ELSE NextMw

\* Variant: the processing route authenticates before it limits.
MiddlewaresAuthFirst(route) ==
  CASE route = "process" -> <<"logAuthAttempts", "apiKeyAuth", "processingRateLimit">>
    [] route = "status"  -> <<"logAuthAttempts", "apiKeyAuth">>
    [] OTHER             -> << >>

\* The middlewares each route registers, in order, and its handler.
Middlewares(route) ==
  CASE route = "process" -> <<"logAuthAttempts", "processingRateLimit", "apiKeyAuth">>
    [] route = "status"  -> <<"logAuthAttempts", "apiKeyAuth">>
    [] OTHER             -> << >>

Handler(route) ==
  CASE route = "process" -> "processNote"
    [] route = "status"  -> "getProcessingStatus"
    [] OTHER             -> "healthCheck"

\* Variant: the route's middlewares still run after the global limiter
\* answered 429.
GlobalRejectCountsElsewhere(r) == TRUE

\* globalRateLimit's handler answers and does not call next(): nothing
\* registered after it sees the request.
GlobalRejectCounts(r) == FALSE

\* The route's middlewares from mws on, then the handler; hit is set once
\* processingRateLimit counted the request.
RECURSIVE RunRoute(_, _, _, _)
RunRoute(mws, r, expectedApiKey, hits) ==
  IF mws = << >> THEN [answer |-> Answer(Handler(r.route), 200, "none"), hit |-> FALSE]
  ELSE CASE Head(mws) = "processingRateLimit" ->
              IF RateLimitPasses(Bump(hits[ProcessingKey(r)], ProcessingMax), ProcessingMax)
              THEN [RunRoute(Tail(mws), r, expectedApiKey, hits) EXCEPT !.hit = TRUE]
              ELSE [answer |-> Answer("processingRateLimit", 429, "PROCESSING_RATE_LIMIT"),
                    hit    |-> TRUE]
         [] Head(mws) = "apiKeyAuth" ->
              LET a == apiKeyAuth(r, expectedApiKey) IN
              IF a = NextMw THEN RunRoute(Tail(mws), r, expectedApiKey, hits)
              ELSE [answer |-> a, hit |-> FALSE]
         [] OTHER -> RunRoute(Tail(mws), r, expectedApiKey, hits)

\* ------------------------------------------------------- GET /api/stats
\* optionalAuth: req.authenticated.
optionalAuth(r, expectedApiKey) ==
  LET apiKey == ExtractKey(r) IN
  IF Truthy(apiKey) THEN apiKey = expectedApiKey ELSE FALSE

\* note.tokens_used || 0
TokensOrZero(row) == IF row.tokens_used = NullNum THEN 0 ELSE row.tokens_used

\* if (note.processing_time) totalTime += note.processing_time
TimeOrZero(row) ==
  IF row.processing_time = NullNum THEN 0 ELSE row.processing_time

RECURSIVE SumTokens(_, _)
SumTokens(S, rows) ==
  IF S = {} THEN 0
  ELSE LET n == CHOOSE x \in S : TRUE IN
       TokensOrZero(rows[n]) + SumTokens(S \ {n}, rows)

RECURSIVE SumTimes(_, _)
SumTimes(S, rows) ==
  IF S = {} THEN 0
  ELSE LET n == CHOOSE x \in S : TRUE IN
       TimeOrZero(rows[n]) + SumTimes(S \ {n}, rows)

\* supabaseService.getProcessingStats: aggregates over the notes that are
\* not pending.  The average is kept as the pair <<total time, notes timed>>.
getProcessingStats(rows) ==
  LET data  == { n \in DOMAIN rows : rows[n].processing_status # "pending" }
      timed == { n \in data : TimeOrZero(rows[n]) # 0 }
  IN
  [totalProcessed   |-> Cardinality(data),
   statusCounts     |-> [st \in { rows[n].processing_status : n \in data } |->
                           Cardinality({ n \in data : rows[n].processing_status = st })],
   typeDistribution |-> [ty \in { rows[n].note_type : n \in data } |->
                           Cardinality({ n \in data : rows[n].note_type = ty })],
   totalTokensUsed  |-> SumTokens(data, rows),
   averageProcessingTime |->
     IF timed = {} THEN <<0, 1>> ELSE <<SumTimes(timed, rows), Cardinality(timed)>>]

\* openaiService.getServiceHealth never throws: it reports one of these.
ServiceHealths == {"healthy", "unhealthy"}

\* ProcessingController.getStats: the answer does not look at req.authenticated.
getStats(authenticated, health, rows) ==
  [code |-> 200, success |-> TRUE, error |-> "none",
   data |-> [database |-> getProcessingStats(rows), openai |-> health,
             server |-> "server"]]

StatsError == [code |-> 500, success |-> FALSE, error |-> "STATS_ERROR", data |-> NoRec]

StatsRequests ==
  { Request("ip1", "stats", SecretKey, Undefined),
    Request("ip1", "stats", Undefined, <<Bearer>> \o SecretKey),
    Request("ip1", "stats", Undefined, Undefined),
    Request("ip1", "stats", OtherKey,  Undefined) }

NoExchange ==
  [ip |-> "none", route |-> "none", xkey |-> Undefined, auth |-> Undefined,
   stage |-> "none", status |-> 0, error |-> "none"]

\* The server has just started: empty limiter stores, no request yet.
InitFrontDoor(key) ==
  /\ secret       = key
  /\ globalHits   = [i \in Ips |-> 0]
  /\ procHits     = [k \in ProcessingKeys |-> 0]
  /\ globalPassed = [i \in Ips |-> 0]
  /\ procPassed   = [k \in ProcessingKeys |-> 0]
  /\ fd           = NoExchange

\* Both services of the processor were built with their credentials.
Live == [store |-> FALSE, openai |-> FALSE]

\* getItem's null, and the list of a deletion that is not under way.
NoList == <<"null">>

\* The app has just been installed: nothing is stored under 'notes', both
\* screens hold their initial state.
InitDevice(p) ==
  /\ storage     = NoList
  /\ listNotes   = <<>>
  /\ loading     = FALSE
  /\ deleting    = NoList
  /\ platform    = p
  /\ isRecording = FALSE
  /\ speechText  = <<>>
  /\ timers      = 0
  /\ stopping    = NoRec
  /\ issued      = 0
  /\ savedIds    = {}
  /\ deletedIds  = {}

InitClient == InitDevice("native")

\* No request is being served.
InitCalls ==
  /\ pc         = [c \in Calls |-> "idle"]
  /\ req        = [c \in Calls |-> NoId]
  /\ reqType    = [c \in Calls |-> "general"]
  /\ note       = [c \in Calls |-> NoRec]
  /\ userLimits = [c \in Calls |-> NoRec]
  /\ result     = [c \in Calls |-> NoRec]
  /\ thrown     = [c \in Calls |-> FALSE]
  /\ resp       = [c \in Calls |-> NoRec]
  /\ log        = [c \in Calls |-> <<>>]
  /\ started    = 0
  /\ statusReq  = "idle"
  /\ statusResp = NoRec
  /\ stats      = NoRec

InitTasks == InitCalls /\ testMode = Live /\ InitClient

\* ----------------------------------------------------------------- Init
Init ==
  /\ \E s \in NoteSamples :
       notes = [n \in NoteIds |->
                  IF n = "n1" THEN NewNote(OwnerOf(n), s[1], s[2])
                  ELSE NewNote(OwnerOf(n), <<"b">>, "general")]
  /\ \E m \in 0..FreeLimit :
       profiles = [u \in Users |->
                     [monthly_note_count |-> IF u = "u1" THEN m ELSE 0,
                      notes_processed    |-> 0,
                      subscription_tier  |-> "free"]]
  /\ InitTasks
  /\ InitFrontDoor(SecretKey)

\* ----------------------------------------------- processNote, step by step
\* The request arrives: validation of req.body.noteId.
StartCall(c, id) ==
  /\ pc[c] = "idle"
  /\ c = "c2" => pc["c1"] # "idle"
  /\ started < MaxCalls
  /\ started' = started + 1
  /\ req' = [req EXCEPT ![c] = id]
  /\ reqType' = reqType
  /\ IF id = NoId
     THEN /\ resp' = [resp EXCEPT ![c] = ErrorResponse(400, "MISSING_NOTE_ID")]
          /\ pc' = [pc EXCEPT ![c] = "done"]
     ELSE /\ resp' = resp
          /\ pc' = [pc EXCEPT ![c] = "getNoteById"]
  /\ UNCHANGED <<notes, profiles, note, userLimits, result, thrown, log, statusReq,
                 statusResp>>

\* A processNote request on its own.
Start(c, id) == StartCall(c, id) /\ UNCHANGED <<fdVars, stats, testMode, clientVars>>

\* Variant: the rejection is answered at once, without the update to failed.
ThrowUncaught(c, name, arg) ==
  /\ thrown' = [thrown EXCEPT ![c] = TRUE]
  /\ log' = [log EXCEPT ![c] = Append(@, Op(name, arg, FALSE))]
  /\ pc' = [pc EXCEPT ![c] = "done"]

\* An awaited store operation rejected: control enters the catch block, which
\* starts its own update of the note (req.body.noteId is set on this path).
Throw(c, name, arg) ==
  /\ thrown' = [thrown EXCEPT ![c] = TRUE]
  /\ log' = [log EXCEPT ![c] = Append(@, Op(name, arg, FALSE))]
  /\ pc' = [pc EXCEPT ![c] = "catchUpdate"]

\* await supabaseService.getNoteById(noteId), then the not-found and
\* already-processed checks.
GetNoteById(c) ==
  /\ pc[c] = "getNoteById"
  /\ \/ /\ Throw(c, "getNoteById", req[c])
        /\ UNCHANGED <<fdVars, stats, testMode, clientVars, notes, profiles, req, reqType, note, userLimits, result, resp,
                       started, statusReq, statusResp>>
     \/ /\ req[c] \notin NoteIds
        /\ resp' = [resp EXCEPT ![c] = NotFoundResponse]
        /\ pc' = [pc EXCEPT ![c] = "done"]
        /\ log' = [log EXCEPT ![c] = Append(@, Op("getNoteById", req[c], TRUE))]
        /\ UNCHANGED <<fdVars, stats, testMode, clientVars, notes, profiles, req, reqType, note, userLimits, result, thrown,
                       started, statusReq, statusResp>>
     \/ /\ req[c] \in NoteIds
        /\ note' = [note EXCEPT ![c] = notes[req[c]]]
        /\ log' = [log EXCEPT ![c] = Append(@, Op("getNoteById", req[c], TRUE))]
        /\ IF AlreadyProcessed(notes[req[c]])
           THEN /\ resp' = [resp EXCEPT ![c] =
                              AlreadyProcessedResponse(req[c], notes[req[c]])]
                /\ pc' = [pc EXCEPT ![c] = "done"]
           ELSE /\ resp' = resp
                /\ pc' = [pc EXCEPT ![c] = "checkUserLimits"]
        /\ UNCHANGED <<fdVars, stats, testMode, clientVars, notes, profiles, req, reqType, userLimits, result, thrown,
                       started, statusReq, statusResp>>

\* Variant: a rejected limit check is logged and processing goes on.
CheckLimitsSwallowed(c) ==
  /\ pc[c] = "checkUserLimits"
  /\ \/ /\ log' = [log EXCEPT ![c] = Append(@, Op("checkUserLimits", note[c].user_id, FALSE))]
        /\ pc' = [pc EXCEPT ![c] = "updateProcessing"]
        /\ UNCHANGED <<fdVars, stats, testMode, clientVars, notes, profiles, req, reqType,
                       note, userLimits, result, thrown, resp, started, statusReq,
                       statusResp>>
     \/ LET limits == CheckUserLimits(profiles[note[c].user_id]) IN
        /\ userLimits' = [userLimits EXCEPT ![c] = limits]
        /\ log' = [log EXCEPT ![c] = Append(@, Op("checkUserLimits", note[c].user_id, TRUE))]
        /\ pc' = [pc EXCEPT ![c] = IF limits.limit_reached
                                   THEN "updateLimit" ELSE "updateProcessing"]
        /\ UNCHANGED <<fdVars, stats, testMode, clientVars, notes, profiles, req, reqType,
                       note, result, thrown, resp, started, statusReq, statusResp>>

\* await supabaseService.checkUserLimits(note.user_id)
CheckLimits(c) ==
  /\ pc[c] = "checkUserLimits"
  /\ \/ /\ Throw(c, "checkUserLimits", note[c].user_id)
        /\ UNCHANGED <<fdVars, stats, testMode, clientVars, notes, profiles, req, reqType, note, userLimits, result, resp,
                       started, statusReq, statusResp>>
     \/ LET limits == CheckUserLimits(profiles[note[c].user_id]) IN
        /\ userLimits' = [userLimits EXCEPT ![c] = limits]
        /\ log' = [log EXCEPT ![c] = Append(@, Op("checkUserLimits", note[c].user_id, TRUE))]
        /\ pc' = [pc EXCEPT ![c] = IF limits.limit_reached
                                   THEN "updateLimit" ELSE "updateProcessing"]
        /\ UNCHANGED <<fdVars, stats, testMode, clientVars, notes, profiles, req, reqType, note, result, thrown, resp,
                       started, statusReq, statusResp>>

\* limit reached: await updateNoteProcessing(noteId, {failed, text + message})
UpdateLimit(c) ==
  /\ pc[c] = "updateLimit"
  /\ \/ /\ Throw(c, "update", "failed")
        /\ UNCHANGED <<fdVars, stats, testMode, clientVars, notes, profiles, req, reqType, note, userLimits, result, resp,
                       started, statusReq, statusResp>>
     \/ /\ notes' = [notes EXCEPT ![req[c]] = UpdateData(@, LimitData(note[c]))]
        /\ log' = [log EXCEPT ![c] = Append(@, Op("update", "failed", TRUE))]
        /\ resp' = [resp EXCEPT ![c] = LimitResponse(userLimits[c])]
        /\ pc' = [pc EXCEPT ![c] = "done"]
        /\ UNCHANGED <<fdVars, stats, testMode, clientVars, profiles, req, reqType, note, userLimits, result, thrown,
                       started, statusReq, statusResp>>

\* Variant: the completion call is made without the write of processing.
UpdateProcessingSkipped(c) ==
  /\ pc[c] = "updateProcessing"
  /\ pc' = [pc EXCEPT ![c] = "openai"]
  /\ UNCHANGED <<fdVars, stats, testMode, clientVars, notes, profiles, req, reqType, note, userLimits, result, thrown,
                 resp, log, started, statusReq, statusResp>>

\* Variant: the write of processing is conditional on no other call having
\* written it; the second caller is refused.
UpdateProcessingGuarded(c) ==
  /\ pc[c] = "updateProcessing"
  /\ IF notes[req[c]].processing_status = "processing"
     THEN /\ resp' = [resp EXCEPT ![c] = [code |-> 409, success |-> FALSE,
                                          error |-> "ALREADY_PROCESSING",
                                          data |-> NoRec]]
          /\ pc' = [pc EXCEPT ![c] = "done"]
          /\ notes' = notes
          /\ log' = log
     ELSE /\ notes' = [notes EXCEPT ![req[c]] =
                         [@ EXCEPT !.processing_status = "processing"]]
          /\ log' = [log EXCEPT ![c] = Append(@, [op |-> "update", arg |-> "processing", ok |-> TRUE])]
          /\ pc' = [pc EXCEPT ![c] = "openai"]
          /\ resp' = resp
  /\ UNCHANGED <<fdVars, stats, testMode, clientVars, profiles, req, reqType, note, userLimits, result, thrown,
                 started, statusReq, statusResp>>

\* await updateNoteProcessing(noteId, {status: 'processing'})
UpdateProcessing(c) ==
  /\ pc[c] = "updateProcessing"
  /\ \/ /\ Throw(c, "update", "processing")
        /\ UNCHANGED <<fdVars, stats, testMode, clientVars, notes, profiles, req, reqType, note, userLimits, result, resp,
                       started, statusReq, statusResp>>
     \/ /\ notes' = [notes EXCEPT ![req[c]] = UpdateData(@, ProcessingData)]
        /\ log' = [log EXCEPT ![c] = Append(@, Op("update", "processing", TRUE))]
        /\ pc' = [pc EXCEPT ![c] = "openai"]
        /\ UNCHANGED <<fdVars, stats, testMode, clientVars, profiles, req, reqType, note, userLimits, result, thrown, resp,
                       started, statusReq, statusResp>>

\* Variant: a failed completion is attempted a second time.
CallOpenAIRetry(c) ==
  /\ pc[c] = "openai"
  /\ \E r \in OpenAIProcessNote(note[c].original_text, note[c].note_type) :
       /\ result' = [result EXCEPT ![c] = r]
       /\ log' = [log EXCEPT ![c] = Append(@, [op |-> "openai", arg |-> req[c], ok |-> r.success])]
       /\ pc' = [pc EXCEPT ![c] =
                   IF ~r.success /\ result[c] = NoRec THEN "openai" ELSE "updateFinal"]
  /\ UNCHANGED <<fdVars, stats, testMode, clientVars, notes, profiles, req, reqType, note, userLimits, thrown, resp,
                 started, statusReq, statusResp>>

\* await openaiService.processNote(note.original_text, note.note_type)
CallOpenAI(c) ==
  /\ pc[c] = "openai"
  /\ \E r \in OpenAIProcessNote(note[c].original_text, note[c].note_type) :
       /\ result' = [result EXCEPT ![c] = r]
       /\ log' = [log EXCEPT ![c] =
                   @ \o OpenAIOps(req[c], note[c].original_text, note[c].note_type, r)]
  /\ pc' = [pc EXCEPT ![c] = "updateFinal"]
  /\ UNCHANGED <<fdVars, stats, testMode, clientVars, notes, profiles, req, reqType, note, userLimits, thrown, resp,
                 started, statusReq, statusResp>>

\* await updateNoteProcessing(noteId, {processedText, status, tokensUsed,
\* processingTime}); a fallback result is answered right after it.
UpdateFinal(c) ==
  /\ pc[c] = "updateFinal"
  /\ \/ /\ Throw(c, "update", FinalStatus(result[c]))
        /\ UNCHANGED <<fdVars, stats, testMode, clientVars, notes, profiles, req, reqType, note, userLimits, result, resp,
                       started, statusReq, statusResp>>
     \/ /\ notes' = [notes EXCEPT ![req[c]] = UpdateData(@, FinalData(result[c]))]
        /\ log' = [log EXCEPT ![c] = Append(@, Op("update", FinalStatus(result[c]), TRUE))]
        /\ IF ShouldIncrement(result[c])
           THEN /\ pc' = [pc EXCEPT ![c] = "increment"]
                /\ resp' = resp
           ELSE /\ pc' = [pc EXCEPT ![c] = "done"]
                /\ resp' = [resp EXCEPT ![c] =
                              ProcessedResponse(req[c], note[c], result[c])]
        /\ UNCHANGED <<fdVars, stats, testMode, clientVars, profiles, req, reqType, note, userLimits, result, thrown,
                       started, statusReq, statusResp>>

\* await supabaseService.incrementUserNoteCount(note.user_id), then the answer
Increment(c) ==
  /\ pc[c] = "increment"
  /\ \/ /\ Throw(c, "increment", note[c].user_id)
        /\ UNCHANGED <<fdVars, stats, testMode, clientVars, notes, profiles, req, reqType, note, userLimits, result, resp,
                       started, statusReq, statusResp>>
     \/ /\ profiles' = [profiles EXCEPT ![note[c].user_id] = IncrementNoteCount(@)]
        /\ log' = [log EXCEPT ![c] = Append(@, Op("increment", note[c].user_id, TRUE))]
        /\ resp' = [resp EXCEPT ![c] = ProcessedResponse(req[c], note[c], result[c])]
        /\ pc' = [pc EXCEPT ![c] = "done"]
        /\ UNCHANGED <<fdVars, stats, testMode, clientVars, notes, req, reqType, note, userLimits, result, thrown,
                       started, statusReq, statusResp>>

\* catch block: the best-effort update to failed (its rejection is logged
\* and dropped), then the 500 answer.
CatchUpdate(c) ==
  /\ pc[c] = "catchUpdate"
  /\ \/ /\ req[c] \in NoteIds
        /\ notes' = [notes EXCEPT ![req[c]] = UpdateData(@, CatchData)]
        /\ log' = [log EXCEPT ![c] = Append(@, Op("catchUpdate", "failed", TRUE))]
     \/ /\ notes' = notes
        /\ log' = [log EXCEPT ![c] = Append(@, Op("catchUpdate", "failed", FALSE))]
  /\ resp' = [resp EXCEPT ![c] = ErrorResponse(500, "PROCESSING_ERROR")]
  /\ pc' = [pc EXCEPT ![c] = "done"]
  /\ UNCHANGED <<fdVars, stats, testMode, clientVars, profiles, req, reqType, note, userLimits, result, thrown,
                 started, statusReq, statusResp>>

\* The task is over; its slot serves the next request.
Finish(c) ==
  /\ pc[c] = "done"
  /\ pc' = [pc EXCEPT ![c] = "idle"]
  /\ req' = [req EXCEPT ![c] = NoId]
  /\ reqType' = [reqType EXCEPT ![c] = "general"]
  /\ note' = [note EXCEPT ![c] = NoRec]
  /\ userLimits' = [userLimits EXCEPT ![c] = NoRec]
  /\ result' = [result EXCEPT ![c] = NoRec]
  /\ thrown' = [thrown EXCEPT ![c] = FALSE]
  /\ resp' = [resp EXCEPT ![c] = NoRec]
  /\ log' = [log EXCEPT ![c] = <<>>]
  /\ UNCHANGED <<fdVars, stats, testMode, clientVars, notes, profiles, started, statusReq, statusResp>>

\* ------------------------------------------------- getProcessingStatus
StatusResponse(id, row) ==
  [code |-> 200, processingStatus |-> row.processing_status,
   tokensUsed |-> row.tokens_used, processingTime |-> row.processing_time,
   hasProcessedText |-> (row.processed_text # NullText /\ row.processed_text # <<>>)]

StatusError(c) ==
  [code |-> c, processingStatus |-> "none",
   tokensUsed |-> NullNum, processingTime |-> NullNum, hasProcessedText |-> FALSE]

\* GET /api/status/:noteId arrives; the handler awaits getNoteById.
StatusRequest(id) ==
  /\ statusReq = "idle"
  /\ statusReq' = id
  /\ statusResp' = NoRec
  /\ UNCHANGED <<fdVars, stats, testMode, clientVars, notes, profiles, pc, req, reqType, note, userLimits, result, thrown,
                 resp, log, started>>

\* getNoteById answers (or rejects) and the handler responds.
StatusAnswer ==
  /\ statusReq # "idle"
  /\ statusResp = NoRec
  /\ \/ statusResp' = IF statusReq \notin NoteIds THEN StatusError(404)
                      ELSE StatusResponse(statusReq, notes[statusReq])
     \/ statusResp' = StatusError(500)
  /\ UNCHANGED <<fdVars, stats, testMode, clientVars, notes, profiles, pc, req, reqType, note, userLimits, result, thrown,
                 resp, log, started, statusReq>>

\* The response has been delivered; the next status request may arrive.
StatusDone ==
  /\ statusReq # "idle"
  /\ statusResp # NoRec
  /\ statusReq' = "idle"
  /\ statusResp' = NoRec
  /\ UNCHANGED <<fdVars, stats, testMode, clientVars, notes, profiles, pc, req, reqType, note, userLimits, result, thrown,
                 resp, log, started>>

\* ----------------------------------------------------------------- Next
Next ==
  \/ \E c \in Calls, id \in ReqIds : Start(c, id)
  \/ \E c \in Calls : GetNoteById(c)
  \/ \E c \in Calls : CheckLimits(c)
  \/ \E c \in Calls : UpdateLimit(c)
  \/ \E c \in Calls : UpdateProcessing(c)
  \/ \E c \in Calls : CallOpenAI(c)
  \/ \E c \in Calls : UpdateFinal(c)
  \/ \E c \in Calls : Increment(c)
  \/ \E c \in Calls : CatchUpdate(c)
  \/ \E c \in Calls : Finish(c)

\* processNote requests only.
Spec == Init /\ [][Next]_vars

\* processNote requests for one stored note together with status requests.
InitStatus ==
  /\ Init
  /\ notes["n1"].note_type = "recipe"
  /\ profiles["u1"].monthly_note_count = 0

NextStatus ==
  \/ Next
  \/ \E id \in NoteIds \cup {AbsentId} : StatusRequest(id)
  \/ StatusAnswer
  \/ StatusDone

SpecStatus == InitStatus /\ [][NextStatus]_vars

\* ------------------------------------------------------------------------
\* speechcraft-processor: the stand-alone processor's controller and services
\* (live mode).  Its store writes name the columns directly, its completion
\* result carries an error field instead of a success flag, and it has no
\* limit check.
\* ------------------------------------------------------------------------
ValidTypes == {"meeting", "todo", "idea", "general"}
ReqTypes   == {"todo", "memo"}                  \* "memo" fails validation

\* updateNoteProcessing spreads the updates over the row's columns.
PUpdateRow(row, updates) ==
  [f \in DOMAIN row |-> IF f \in DOMAIN updates THEN updates[f] ELSE row[f]]

\* OpenAIService.processNote of the processor: a failed completion returns
\* the original text with an error message; a success returns the service's
\* text (the original text when the service sent none).
POpenAIProcessNote(originalText, noteType) ==
  { [processedText |-> <<"AI:">> \o originalText, tokensUsed |-> t,
     processingTime |-> d, error |-> "none"]
      : t \in 1..MaxTokens, d \in 1..MaxTime }
  \cup
  { [processedText |-> originalText, tokensUsed |-> 0,
     processingTime |-> 0, error |-> "completion failed"] }

PFinalStatus(r) == IF r.error # "none" THEN "failed" ELSE "completed"

PFinalData(r, type) ==
  [processed_text |-> r.processedText, processing_status |-> PFinalStatus(r),
   tokens_used |-> r.tokensUsed, processing_time |-> r.processingTime,
   note_type |-> type]

PProcessedResponse(row, r) ==
  [code |-> 200, success |-> TRUE, error |-> "none",
   data |-> [note |-> row,
             processing |-> [tokensUsed |-> r.tokensUsed,
                             processingTime |-> r.processingTime,
                             error |-> r.error]]]

PIncrementNoteCount(profile) ==
  [profile EXCEPT !.notes_processed = @ + 1]

\* The request arrives: processNoteSchema.validate(req.body).
PStart(c, id, type) ==
  /\ pc[c] = "idle"
  /\ c = "c2" => pc["c1"] # "idle"
  /\ started < MaxCalls
  /\ started' = started + 1
  /\ req' = [req EXCEPT ![c] = id]
  /\ reqType' = [reqType EXCEPT ![c] = type]
  /\ IF id = NoId \/ type \notin ValidTypes
     THEN /\ resp' = [resp EXCEPT ![c] = ErrorResponse(400, "Validation error")]
          /\ pc' = [pc EXCEPT ![c] = "done"]
     ELSE /\ resp' = resp
          /\ pc' = [pc EXCEPT ![c] = "getNoteById"]
  /\ UNCHANGED <<fdVars, stats, testMode, clientVars, notes, profiles, note, userLimits, result, thrown, log,
                 statusReq, statusResp>>

\* await getNoteById: a missing row is an error of .single() and is thrown.
PGetNoteById(c) ==
  /\ pc[c] = "getNoteById"
  /\ \/ /\ Throw(c, "getNoteById", req[c])
        /\ UNCHANGED <<fdVars, stats, testMode, clientVars, notes, profiles, req, reqType, note, userLimits, result,
                       resp, started, statusReq, statusResp>>
     \/ /\ req[c] \in NoteIds
        /\ note' = [note EXCEPT ![c] = notes[req[c]]]
        /\ log' = [log EXCEPT ![c] = Append(@, Op("getNoteById", req[c], TRUE))]
        /\ IF notes[req[c]].processing_status = "completed"
           THEN /\ resp' = [resp EXCEPT ![c] = ErrorResponse(400, "Already processed")]
                /\ pc' = [pc EXCEPT ![c] = "done"]
           ELSE /\ resp' = resp
                /\ pc' = [pc EXCEPT ![c] = "updateProcessing"]
        /\ UNCHANGED <<fdVars, stats, testMode, clientVars, notes, profiles, req, reqType, userLimits, result, thrown,
                       started, statusReq, statusResp>>

\* await updateNoteProcessing(noteId, {processing_status, note_type})
PUpdateProcessing(c) ==
  /\ pc[c] = "updateProcessing"
  /\ \/ /\ Throw(c, "update", "processing")
        /\ UNCHANGED <<fdVars, stats, testMode, clientVars, notes, profiles, req, reqType, note, userLimits, result,
                       resp, started, statusReq, statusResp>>
     \/ /\ notes' = [notes EXCEPT ![req[c]] =
                       PUpdateRow(@, [processing_status |-> "processing",
                                      note_type |-> reqType[c]])]
        /\ log' = [log EXCEPT ![c] = Append(@, Op("update", "processing", TRUE))]
        /\ pc' = [pc EXCEPT ![c] = "openai"]
        /\ UNCHANGED <<fdVars, stats, testMode, clientVars, profiles, req, reqType, note, userLimits, result, thrown,
                       resp, started, statusReq, statusResp>>

\* await openaiService.processNote(note.original_text, noteType)
PCallOpenAI(c) ==
  /\ pc[c] = "openai"
  /\ \E r \in POpenAIProcessNote(note[c].original_text, reqType[c]) :
       /\ result' = [result EXCEPT ![c] = r]
       /\ log' = [log EXCEPT ![c] = Append(@, Op("openai", req[c], r.error = "none"))]
  /\ pc' = [pc EXCEPT ![c] = "updateFinal"]
  /\ UNCHANGED <<fdVars, stats, testMode, clientVars, notes, profiles, req, reqType, note, userLimits, thrown, resp,
                 started, statusReq, statusResp>>

\* await updateNoteProcessing(noteId, {...result}); updatedNote is kept for
\* the answer (in resp, completed by PIncrement).
PUpdateFinal(c) ==
  /\ pc[c] = "updateFinal"
  /\ \/ /\ Throw(c, "update", PFinalStatus(result[c]))
        /\ UNCHANGED <<fdVars, stats, testMode, clientVars, notes, profiles, req, reqType, note, userLimits, result,
                       resp, started, statusReq, statusResp>>
     \/ /\ notes' = [notes EXCEPT ![req[c]] =
                       PUpdateRow(@, PFinalData(result[c], reqType[c]))]
        /\ log' = [log EXCEPT ![c] = Append(@, Op("update", PFinalStatus(result[c]), TRUE))]
        /\ note' = [note EXCEPT ![c] = notes'[req[c]]]
        /\ pc' = [pc EXCEPT ![c] = "increment"]
        /\ UNCHANGED <<fdVars, stats, testMode, clientVars, profiles, req, reqType, userLimits, result, thrown, resp,
                       started, statusReq, statusResp>>

\* await incrementUserNoteCount(note.user_id): not conditional on the result.
PIncrement(c) ==
  /\ pc[c] = "increment"
  /\ \/ /\ Throw(c, "increment", note[c].user_id)
        /\ UNCHANGED <<fdVars, stats, testMode, clientVars, notes, profiles, req, reqType, note, userLimits, result,
                       resp, started, statusReq, statusResp>>
     \/ /\ profiles' = [profiles EXCEPT ![note[c].user_id] = PIncrementNoteCount(@)]
        /\ log' = [log EXCEPT ![c] = Append(@, Op("increment", note[c].user_id, TRUE))]
        /\ resp' = [resp EXCEPT ![c] = PProcessedResponse(note[c], result[c])]
        /\ pc' = [pc EXCEPT ![c] = "done"]
        /\ UNCHANGED <<fdVars, stats, testMode, clientVars, notes, req, reqType, note, userLimits, result, thrown,
                       started, statusReq, statusResp>>

\* catch block: best-effort update {processing_status: 'failed'}, then 500.
PCatchUpdate(c) ==
  /\ pc[c] = "catchUpdate"
  /\ \/ /\ req[c] \in NoteIds
        /\ notes' = [notes EXCEPT ![req[c]] =
                       PUpdateRow(@, [processing_status |-> "failed"])]
        /\ log' = [log EXCEPT ![c] = Append(@, Op("catchUpdate", "failed", TRUE))]
     \/ /\ notes' = notes
        /\ log' = [log EXCEPT ![c] = Append(@, Op("catchUpdate", "failed", FALSE))]
  /\ resp' = [resp EXCEPT ![c] = ErrorResponse(500, "Processing failed")]
  /\ pc' = [pc EXCEPT ![c] = "done"]
  /\ UNCHANGED <<fdVars, stats, testMode, clientVars, profiles, req, reqType, note, userLimits, result, thrown,
                 started, statusReq, statusResp>>

NextProcessor ==
  \/ \E c \in Calls, id \in ReqIds, type \in ReqTypes : PStart(c, id, type)
  \/ \E c \in Calls : PGetNoteById(c)
  \/ \E c \in Calls : PUpdateProcessing(c)
  \/ \E c \in Calls : PCallOpenAI(c)
  \/ \E c \in Calls : PUpdateFinal(c)
  \/ \E c \in Calls : PIncrement(c)
  \/ \E c \in Calls : PCatchUpdate(c)
  \/ \E c \in Calls : Finish(c)

SpecProcessor == Init /\ [][NextProcessor]_vars

\* ------------------------------------ speechcraft-processor: test mode
\* Values of the environment variables the constructors read.
Placeholder == <<"your-...">>            \* the value of the sample .env file
RealValue   == <<"configured">>
EnvValues   == {Undefined, Placeholder, RealValue}

\* SupabaseService.constructor: this.testMode.
SupabaseTestMode(supabaseUrl, supabaseKey) ==
  \/ ~Truthy(supabaseUrl) \/ ~Truthy(supabaseKey)
  \/ supabaseUrl = Placeholder \/ supabaseKey = Placeholder

\* OpenAIService.constructor: this.testMode.
OpenAITestMode(apiKey) == ~Truthy(apiKey) \/ apiKey = Placeholder

TestText == <<"This", " ", "is", " ", "a", " ", "test", " ", "voice", " ", "note">>

\* Variant: the fabricated note is a completed one.
TestNoteCompleted(id) ==
  [NewNote("test-user-id", TestText, "general") EXCEPT !.processing_status = "completed"]

\* getNoteById in test mode: the same pending general note for every id.
TestNote(id) == NewNote("test-user-id", TestText, "general")

\* updateNoteProcessing in test mode: {id: noteId, ...updates}.
TestUpdated(id, updates) ==
  [f \in {"id"} \cup DOMAIN updates |-> IF f = "id" THEN id ELSE updates[f]]

\* OpenAIService.processNote in test mode: the text wrapped in a notice, a
\* token estimate of a quarter of the length, no error field.  The fixed
\* processingTime of half a second is counted as one unit.
TestOpenAIProcessNote(originalText, noteType) ==
  [processedText |-> <<"[TEST MODE - AI PROCESSED]", noteType>> \o originalText
                       \o <<"**Key Points:**", noteType>>,
   tokensUsed |-> Len(originalText) \div 4,
   processingTime |-> 1,
   error |-> "none"]

TestGetNoteById(c) ==
  /\ pc[c] = "getNoteById"
  /\ note' = [note EXCEPT ![c] = TestNote(req[c])]
  /\ log' = [log EXCEPT ![c] = Append(@, Op("getNoteById", req[c], TRUE))]
  /\ IF TestNote(req[c]).processing_status = "completed"
     THEN /\ resp' = [resp EXCEPT ![c] = ErrorResponse(400, "Already processed")]
          /\ pc' = [pc EXCEPT ![c] = "done"]
     ELSE /\ resp' = resp
          /\ pc' = [pc EXCEPT ![c] = "updateProcessing"]
  /\ UNCHANGED <<fdVars, stats, testMode, clientVars, notes, profiles, req, reqType,
                 userLimits, result, thrown, started, statusReq, statusResp>>

TestUpdateProcessing(c) ==
  /\ pc[c] = "updateProcessing"
  /\ log' = [log EXCEPT ![c] = Append(@, Op("update", "processing", TRUE))]
  /\ pc' = [pc EXCEPT ![c] = "openai"]
  /\ UNCHANGED <<fdVars, stats, testMode, clientVars, notes, profiles, req, reqType, note,
                 userLimits, result, thrown, resp, started, statusReq, statusResp>>

TestCallOpenAI(c) ==
  /\ pc[c] = "openai"
  /\ result' = [result EXCEPT ![c] =
                  TestOpenAIProcessNote(note[c].original_text, reqType[c])]
  /\ log' = [log EXCEPT ![c] = Append(@, Op("openai", req[c], TRUE))]
  /\ pc' = [pc EXCEPT ![c] = "updateFinal"]
  /\ UNCHANGED <<fdVars, stats, testMode, clientVars, notes, profiles, req, reqType, note,
                 userLimits, thrown, resp, started, statusReq, statusResp>>

TestUpdateFinal(c) ==
  /\ pc[c] = "updateFinal"
  /\ log' = [log EXCEPT ![c] = Append(@, Op("update", PFinalStatus(result[c]), TRUE))]
  /\ pc' = [pc EXCEPT ![c] = "increment"]
  /\ UNCHANGED <<fdVars, stats, testMode, clientVars, notes, profiles, req, reqType, note,
                 userLimits, result, thrown, resp, started, statusReq, statusResp>>

\* incrementUserNoteCount in test mode, then the 200 answer with updatedNote.
TestIncrement(c) ==
  /\ pc[c] = "increment"
  /\ log' = [log EXCEPT ![c] = Append(@, Op("increment", note[c].user_id, TRUE))]
  /\ resp' = [resp EXCEPT ![c] =
                PProcessedResponse(TestUpdated(req[c], PFinalData(result[c], reqType[c])),
                                   result[c])]
  /\ pc' = [pc EXCEPT ![c] = "done"]
  /\ UNCHANGED <<fdVars, stats, testMode, clientVars, notes, profiles, req, reqType, note,
                 userLimits, result, thrown, started, statusReq, statusResp>>

\* The processor started with the credentials of at least one service absent.
InitStub ==
  /\ notes = [n \in NoteIds |->
                IF n = "n1" THEN NewNote(OwnerOf(n), <<"a">>, "recipe")
                ELSE NewNote(OwnerOf(n), <<"b">>, "general")]
  /\ profiles = [u \in Users |->
                   [monthly_note_count |-> 0, notes_processed |-> 0,
                    subscription_tier |-> "free"]]
  /\ InitCalls
  /\ InitClient
  /\ InitFrontDoor(SecretKey)
  /\ \E supabaseUrl \in EnvValues, supabaseKey \in EnvValues, apiKey \in EnvValues :
       /\ testMode = [store  |-> SupabaseTestMode(supabaseUrl, supabaseKey),
                      openai |-> OpenAITestMode(apiKey)]
       /\ testMode # Live

NextStub ==
  \/ \E c \in Calls, id \in ReqIds, type \in ReqTypes : PStart(c, id, type)
  \/ \E c \in Calls : testMode.store /\ TestGetNoteById(c)
  \/ \E c \in Calls : testMode.store /\ TestUpdateProcessing(c)
  \/ \E c \in Calls : testMode.store /\ TestUpdateFinal(c)
  \/ \E c \in Calls : testMode.store /\ TestIncrement(c)
  \/ \E c \in Calls : testMode.openai /\ TestCallOpenAI(c)
  \/ \E c \in Calls : ~testMode.store /\ PGetNoteById(c)
  \/ \E c \in Calls : ~testMode.store /\ PUpdateProcessing(c)
  \/ \E c \in Calls : ~testMode.store /\ PUpdateFinal(c)
  \/ \E c \in Calls : ~testMode.store /\ PIncrement(c)
  \/ \E c \in Calls : ~testMode.store /\ PCatchUpdate(c)
  \/ \E c \in Calls : ~testMode.openai /\ PCallOpenAI(c)
  \/ \E c \in Calls : Finish(c)

SpecStub == InitStub /\ [][NextStub]_vars

\* ------------------------------------------- HTTP front door: the server
OtherIpMax == 1     \* requests the second client sends in one window

\* The processing limiter's keys that only the second client uses.
OtherKeys == {<<"ip", <<"ip2">> >>, <<"api_key", OtherKey>>}

\* One request goes through app.use(globalRateLimit), then through the
\* middlewares of its route up to the one that answers.
FrontDoor(r) ==
  /\ r.ip = "ip2" => globalHits[r.ip] < OtherIpMax
  /\ ProcessingKey(r) \in OtherKeys => procHits[ProcessingKey(r)] < OtherIpMax
  /\ LET g       == Bump(globalHits[GlobalKey(r)], GlobalMax)
         passes  == RateLimitPasses(g, GlobalMax)
         out     == RunRoute(Middlewares(r.route), r, secret, procHits)
         answer  == IF passes THEN out.answer
                    ELSE Answer("globalRateLimit", 429, "RATE_LIMIT_EXCEEDED")
         counted == r.route = "process"
                    /\ (IF passes THEN out.hit ELSE GlobalRejectCounts(r))
         k       == ProcessingKey(r)
     IN
     /\ globalHits' = [globalHits EXCEPT ![GlobalKey(r)] = g]
     /\ globalPassed' = IF answer.stage # "globalRateLimit"
                        THEN [globalPassed EXCEPT ![r.ip] = Bump(@, GlobalMax)]
                        ELSE globalPassed
     /\ procHits' = IF counted
                    THEN [procHits EXCEPT ![k] = Bump(@, ProcessingMax)]
                    ELSE procHits
     /\ procPassed' = IF r.route = "process"
                         /\ answer.stage \notin {"globalRateLimit", "processingRateLimit"}
                      THEN [procPassed EXCEPT ![k] = Bump(@, ProcessingMax)]
                      ELSE procPassed
     /\ fd' = [ip |-> r.ip, route |-> r.route, xkey |-> r.xkey, auth |-> r.auth,
               stage |-> answer.stage, status |-> answer.status, error |-> answer.error]
  /\ secret' = secret

\* A request whose handler, if it is reached, is not followed further.
Receive(r) ==
  /\ FrontDoor(r)
  /\ UNCHANGED <<notes, profiles, pc, req, reqType, note, userLimits, result, thrown,
                 resp, log, started, statusReq, statusResp, stats, testMode, clientVars>>

\* windowMs elapsed for one client of the global limiter: its count starts anew.
GlobalWindowReset(ip) ==
  /\ globalHits[ip] > 0
  /\ globalHits' = [globalHits EXCEPT ![ip] = 0]
  /\ globalPassed' = [globalPassed EXCEPT ![ip] = 0]
  /\ UNCHANGED <<notes, profiles, pc, req, reqType, note, userLimits, result, thrown,
                 resp, log, started, statusReq, statusResp, secret, procHits,
                 procPassed, fd, stats, testMode, clientVars>>

\* windowMs elapsed for one key of the processing limiter.
ProcessingWindowReset(k) ==
  /\ procHits[k] > 0
  /\ procHits' = [procHits EXCEPT ![k] = 0]
  /\ procPassed' = [procPassed EXCEPT ![k] = 0]
  /\ UNCHANGED <<notes, profiles, pc, req, reqType, note, userLimits, result, thrown,
                 resp, log, started, statusReq, statusResp, secret, globalHits,
                 globalPassed, fd, stats, testMode, clientVars>>

\* The server starts with the secret configured or, by mistake, unset.
InitServer ==
  /\ notes = [n \in NoteIds |-> NewNote(OwnerOf(n), <<"b">>, "general")]
  /\ profiles = [u \in Users |->
                   [monthly_note_count |-> 0, notes_processed |-> 0,
                    subscription_tier  |-> "free"]]
  /\ InitTasks
  /\ \E key \in {SecretKey, Undefined} : InitFrontDoor(key)

NextServer ==
  \/ \E r \in Requests : Receive(r)
  \/ \E ip \in Ips : GlobalWindowReset(ip)
  \/ \E k \in ProcessingKeys : ProcessingWindowReset(k)

\* Requests at the front door, up to the handler they are routed to.
SpecServer == InitServer /\ [][NextServer]_vars

\* ------------------------------------------- notes of every text and category
MaxLen == 3         \* longest note text

TextChars == {" ", "x", "."}
Texts == UNION { [1..n -> TextChars] : n \in 0..MaxLen }
TextTypes == {"meeting", "todo", "idea", "general", "recipe"}

\* The store holds one note of any text and category, not processed yet.
InitText ==
  /\ \E t \in Texts, ty \in TextTypes :
       notes = [n \in NoteIds |->
                  IF n = "n1" THEN NewNote(OwnerOf(n), t, ty)
                  ELSE NewNote(OwnerOf(n), <<"b">>, "general")]
  /\ \E m \in 0..FreeLimit :
       profiles = [u \in Users |->
                     [monthly_note_count |-> IF u = "u1" THEN m ELSE 0,
                      notes_processed    |-> 0,
                      subscription_tier  |-> "free"]]
  /\ InitTasks
  /\ InitFrontDoor(SecretKey)

\* One client processes that note, one request after the other.
NextText ==
  \/ Start("c1", "n1")
  \/ GetNoteById("c1")
  \/ CheckLimits("c1")
  \/ UpdateLimit("c1")
  \/ UpdateProcessing("c1")
  \/ CallOpenAI("c1")
  \/ UpdateFinal("c1")
  \/ Increment("c1")
  \/ CatchUpdate("c1")
  \/ Finish("c1")

SpecText == InitText /\ [][NextText]_vars

\* ------------------------------------------------------- GET /api/stats
\* optionalAuth, then getStats: both services are asked, and the answer is
\* the aggregates or, when the store query is rejected, 500 STATS_ERROR.
GetStats(r) ==
  LET authenticated == optionalAuth(r, secret) IN
  /\ \/ stats' = [request |-> r, authenticated |-> authenticated,
                  health |-> "none", response |-> StatsError]
     \/ \E h \in ServiceHealths :
          stats' = [request |-> r, authenticated |-> authenticated,
                    health |-> h, response |-> getStats(authenticated, h, notes)]
  /\ UNCHANGED <<notes, profiles, pc, req, reqType, note, userLimits, result, thrown,
                 resp, log, started, statusReq, statusResp, fdVars, testMode,
                 clientVars>>

\* One client processes a note while the statistics are asked for.
NextStats ==
  \/ NextText
  \/ \E r \in StatsRequests : GetStats(r)

SpecStats == Init /\ [][NextStats]_vars

\* ------------------------------------- POST /api/process, door to answer
\* A request with body {noteId: id} passes the front door and, if no
\* middleware answered it, enters processNote.  The server is given one
\* request at a time.
Enter(r, id) ==
  /\ pc["c1"] = "idle"
  /\ FrontDoor(r)
  /\ IF fd'.stage = "processNote"
     THEN StartCall("c1", id)
     ELSE UNCHANGED <<notes, profiles, pc, req, reqType, note, userLimits, result,
                      thrown, resp, log, started, statusReq, statusResp>>
  /\ UNCHANGED <<stats, testMode, clientVars>>

InitEntry ==
  /\ notes = [n \in NoteIds |->
                IF n = "n1" THEN NewNote(OwnerOf(n), <<"a">>, "recipe")
                ELSE NewNote(OwnerOf(n), <<"b">>, "general")]
  /\ \E m \in 0..FreeLimit :
       profiles = [u \in Users |->
                     [monthly_note_count |-> IF u = "u1" THEN m ELSE 0,
                      notes_processed    |-> 0,
                      subscription_tier  |-> "free"]]
  /\ InitTasks
  /\ \E key \in {SecretKey, Undefined} : InitFrontDoor(key)

NextEntry ==
  \/ \E r \in EntryRequests, id \in {"n1", NoId, AbsentId} : Enter(r, id)
  \/ GetNoteById("c1")
  \/ CheckLimits("c1")
  \/ UpdateLimit("c1")
  \/ UpdateProcessing("c1")
  \/ CallOpenAI("c1")
  \/ UpdateFinal("c1")
  \/ Increment("c1")
  \/ CatchUpdate("c1")
  \/ Finish("c1")

SpecEntry == InitEntry /\ [][NextEntry]_vars

\* ------------------------------------------------------------------------
\* The mobile client: the recording screen and the notes list screen, which
\* share the list stored under the key 'notes' of AsyncStorage.  Notes are
\* represented by their ids; getItem and setItem take effect at the step
\* that models them, and the code between two awaits is one step.
\* ------------------------------------------------------------------------
MaxSaves == 2       \* notes the recording screen saves
MaxWords == 3       \* longest transcript

Platforms == {"native", "web", "webNoRecognition"}

\* loadNotes' mockNotes.
MockNotes == <<"mock-1", "mock-2", "mock-3">>

\* uuid.v4(): a fresh id at every call.
Uuid(n) == <<"uuid-1", "uuid-2", "uuid-3", "uuid-4">>[n]

\* simulateSpeechToText's sampleTexts, split at the blanks (their first words).
SampleTexts == { <<"Today", "I", "had">>, <<"Remember", "to", "buy">> }

\* What the recognition reports: an interim result or a final sentence.
Transcripts == { <<"hello">>, <<"hello", ".">> }

Punctuation == {".", "!", "?"}

\* prev.replace(/[^.!?]*$/, ''): everything up to the last punctuation mark.
RECURSIVE FinalPart(_)
FinalPart(prev) ==
  IF prev = <<>> THEN <<>>
  ELSE IF prev[Len(prev)] \in Punctuation THEN prev
  ELSE FinalPart(SubSeq(prev, 1, Len(prev) - 1))

\* addWord, called with currentIndex words already added: the closure's
\* isRecording decides whether a word is appended and a timer is set.
addWord(words, currentIndex, closureIsRecording, prev) ==
  IF currentIndex < Len(words) /\ closureIsRecording
  THEN [speechText |-> Append(prev, words[currentIndex + 1]),
        timer      |-> currentIndex + 1 < Len(words)]
  ELSE [speechText |-> prev, timer |-> FALSE]

\* notes.filter(note => note.id !== noteId)
Without(list, id) == SelectSeq(list, LAMBDA x : x # id)

Ids(list) == IF list = NoList THEN {} ELSE { list[i] : i \in 1..Len(list) }

\* The button starts a recording: setIsRecording(true), setSpeechText(''),
\* then the recognition is started or, without it, simulateSpeechToText()
\* calls addWord() inside this handler, whose closure holds the isRecording
\* of the render the button belongs to.
StartRecording ==
  /\ ~isRecording
  /\ isRecording' = TRUE
  /\ IF platform = "web"
     THEN speechText' = <<>> /\ timers' = timers
     ELSE \E words \in SampleTexts :
            LET r == addWord(words, 0, isRecording, <<>>) IN
            /\ speechText' = r.speechText
            /\ timers' = IF r.timer THEN timers + 1 ELSE timers
  /\ UNCHANGED <<serverVars, storage, listNotes, loading, deleting, platform, stopping,
                 issued, savedIds, deletedIds>>

\* recognition.onresult while the recognition runs.
OnResult(transcript) ==
  /\ platform = "web"
  /\ isRecording
  /\ Len(FinalPart(speechText) \o transcript) <= MaxWords
  /\ speechText' = FinalPart(speechText) \o transcript
  /\ UNCHANGED <<serverVars, storage, listNotes, loading, deleting, platform, isRecording,
                 timers, stopping, issued, savedIds, deletedIds>>

\* The button stops the recording; with a non-empty transcript the note is
\* processed and saved (one such save is followed at a time).
StopRecording ==
  /\ isRecording
  /\ isRecording' = FALSE
  /\ IF Trim(speechText) # <<>>
     THEN /\ stopping = NoRec
          /\ issued < MaxSaves
          /\ stopping' = [stage |-> "processWithAI", id |-> "none", list |-> <<>>]
     ELSE stopping' = stopping
  /\ UNCHANGED <<serverVars, storage, listNotes, loading, deleting, platform, speechText,
                 timers, issued, savedIds, deletedIds>>

\* processWithAI's second has passed: the note gets its id and saveNote
\* asks for the stored list.
ProcessWithAI ==
  /\ stopping # NoRec /\ stopping.stage = "processWithAI"
  /\ issued' = issued + 1
  /\ stopping' = [stopping EXCEPT !.stage = "getItem", !.id = Uuid(issued + 1)]
  /\ UNCHANGED <<serverVars, storage, listNotes, loading, deleting, platform, isRecording,
                 speechText, timers, savedIds, deletedIds>>

\* saveNote: getItem('notes') returns, the note is put in front.
SaveNoteGetItem ==
  /\ stopping # NoRec /\ stopping.stage = "getItem"
  /\ stopping' = [stopping EXCEPT
                    !.stage = "setItem",
                    !.list = <<stopping.id>> \o (IF storage = NoList THEN <<>> ELSE storage)]
  /\ UNCHANGED <<serverVars, storage, listNotes, loading, deleting, platform, isRecording,
                 speechText, timers, issued, savedIds, deletedIds>>

\* saveNote: setItem('notes', ...) is done.
SaveNoteSetItem ==
  /\ stopping # NoRec /\ stopping.stage = "setItem"
  /\ storage' = stopping.list
  /\ savedIds' = savedIds \cup {stopping.id}
  /\ stopping' = NoRec
  /\ UNCHANGED <<serverVars, listNotes, loading, deleting, platform, isRecording,
                 speechText, timers, issued, deletedIds>>

\* loadNotes (on focus or refresh): the stored list, or the mock notes, which
\* are then written to the storage.
LoadNotes ==
  /\ ~loading
  /\ IF storage # NoList
     THEN listNotes' = storage /\ loading' = FALSE
     ELSE listNotes' = MockNotes /\ loading' = TRUE
  /\ UNCHANGED <<serverVars, storage, deleting, platform, isRecording, speechText, timers,
                 stopping, issued, savedIds, deletedIds>>

LoadNotesSetItem ==
  /\ loading
  /\ storage' = MockNotes
  /\ loading' = FALSE
  /\ UNCHANGED <<serverVars, listNotes, deleting, platform, isRecording, speechText,
                 timers, stopping, issued, savedIds, deletedIds>>

\* deleteNote: the user confirms; the screen's list without the note is on
\* its way to the storage.
DeleteNote(noteId) ==
  /\ deleting = NoList
  /\ noteId \in Ids(listNotes)
  /\ deleting' = Without(listNotes, noteId)
  /\ deletedIds' = deletedIds \cup {noteId}
  /\ UNCHANGED <<serverVars, storage, listNotes, loading, platform, isRecording,
                 speechText, timers, stopping, issued, savedIds>>

DeleteNoteSetItem ==
  /\ deleting # NoList
  /\ storage' = deleting
  /\ listNotes' = deleting
  /\ deleting' = NoList
  /\ UNCHANGED <<serverVars, loading, platform, isRecording, speechText, timers,
                 stopping, issued, savedIds, deletedIds>>

InitApp ==
  /\ notes = [n \in NoteIds |-> NewNote(OwnerOf(n), <<"b">>, "general")]
  /\ profiles = [u \in Users |->
                   [monthly_note_count |-> 0, notes_processed |-> 0,
                    subscription_tier |-> "free"]]
  /\ InitCalls
  /\ testMode = Live
  /\ InitFrontDoor(SecretKey)
  /\ \E p \in Platforms : InitDevice(p)

Continue ==
  \/ ProcessWithAI
  \/ SaveNoteGetItem
  \/ SaveNoteSetItem
  \/ LoadNotesSetItem
  \/ DeleteNoteSetItem

NextApp ==
  \/ StartRecording
  \/ \E t \in Transcripts : OnResult(t)
  \/ StopRecording
  \/ ProcessWithAI
  \/ SaveNoteGetItem
  \/ SaveNoteSetItem
  \/ LoadNotes
  \/ LoadNotesSetItem
  \/ \E id \in Ids(MockNotes) \cup { Uuid(n) : n \in 1..MaxSaves } : DeleteNote(id)
  \/ DeleteNoteSetItem

SpecApp == InitApp /\ [][NextApp]_vars

\* Timers and storage calls come back; the user is free to do nothing.
SpecAppFair == SpecApp /\ WF_vars(Continue)


\* ------------------------------------------------------- reading the log
Ops(c, name) == { i \in 1..Len(log[c]) : log[c][i].op = name }
OkOps(c, name) == { i \in Ops(c, name) : log[c][i].ok }
Answered(c) == pc[c] = "done"
Statuses(n) == notes[n].processing_status

\* ---------------------------------------------------------------- C1
\* C1: a processNote call whose lookup finds the note completed answers 200
\* with the stored processed text, token count and processing time, leaves
\* the store untouched, and makes no completion call and no counter
\* increment (the lookup is its only operation).
C1_ShortCircuitStep ==
  \A c \in Calls :
    ( /\ pc[c] = "getNoteById"
      /\ pc'[c] # "getNoteById"
      /\ ~thrown'[c]
      /\ req[c] \in NoteIds
      /\ Statuses(req[c]) = "completed" )
    => /\ pc'[c] = "done"
       /\ resp'[c].code = 200
       /\ resp'[c].success
       /\ resp'[c].data = [noteId |-> req[c],
                           processedText |-> notes[req[c]].processed_text,
                           tokensUsed |-> notes[req[c]].tokens_used,
                           processingTime |-> notes[req[c]].processing_time,
                           alreadyProcessed |-> TRUE]
       /\ notes' = notes
       /\ profiles' = profiles

C1_NoEffects ==
  \A c \in Calls :
    (note[c] # NoRec /\ note[c].processing_status = "completed")
    => /\ Ops(c, "openai") = {}
       /\ Ops(c, "increment") = {}
       /\ Ops(c, "update") = {}
       /\ result[c] = NoRec
       /\ Answered(c)

C1_CompletedIsIdempotent == []C1_NoEffects /\ [][C1_ShortCircuitStep]_vars

C1_Witness ==
  \E c \in Calls :
    /\ Answered(c)
    /\ note[c] # NoRec
    /\ note[c].processing_status = "completed"
    /\ resp[c].code = 200
    /\ resp[c].data.processedText = notes[req[c]].processed_text
    /\ notes[req[c]].tokens_used >= 1

\* ---------------------------------------------------------------- C2
StatusChanges ==
  { <<notes[n].processing_status, notes'[n].processing_status>> :
      n \in { m \in NoteIds : notes'[m].processing_status # notes[m].processing_status } }

\* C2 as stated: every change of a note's stored status is pending->processing,
\* processing->completed or processing->failed.
C2_OnlyAdvances ==
  [][StatusChanges \subseteq { <<"pending", "processing">>,
                               <<"processing", "completed">>,
                               <<"processing", "failed">> }]_vars

\* C2 amended: the stored status never returns to pending and never goes
\* from pending to completed in one write; every other change among
\* processing, completed and failed is a change the calls make.
AllowedChanges ==
  { <<"pending", "processing">>, <<"pending", "failed">>,
    <<"processing", "completed">>, <<"processing", "failed">>,
    <<"failed", "processing">>, <<"failed", "completed">>,
    <<"completed", "processing">>, <<"completed", "failed">> }

C2_NeverBackToPending == [][StatusChanges \subseteq AllowedChanges]_vars

\* A failed note is being reprocessed: its status went failed -> processing.
C2_Witness ==
  \E c \in Calls :
    /\ pc[c] = "openai"
    /\ note[c].processing_status = "failed"
    /\ Statuses(req[c]) = "processing"

\* ---------------------------------------------------------------- C3
\* C3: once a note's stored status is completed, no step changes its stored
\* status or its stored processed text.
C3_CompletedIsTerminal ==
  [][\A n \in NoteIds :
       Statuses(n) = "completed"
       => /\ notes'[n].processing_status = "completed"
          /\ notes'[n].processed_text = notes[n].processed_text]_vars

\* ---------------------------------------------------------------- C4
\* C4: nothing excludes a second call for the same note: every call whose
\* lookup found the note not completed and whose limit check passed makes its
\* own completion call and, when that succeeds and its writes are
\* acknowledged, its own counter increment, whatever the other calls do.
C4_NoMutualExclusion ==
  \A c \in Calls :
    ( /\ Answered(c)
      /\ ~thrown[c]
      /\ note[c] # NoRec
      /\ note[c].processing_status # "completed"
      /\ userLimits[c] # NoRec
      /\ ~userLimits[c].limit_reached )
    => /\ resp[c].code = 200
       /\ Cardinality(Ops(c, "openai")) = 1
       /\ result[c].success => Cardinality(OkOps(c, "increment")) = 1

\* Two calls for the same note both read it as pending, both called the
\* completion service and both incremented the owner's counter.
C4_Witness ==
  \E c \in Calls, d \in Calls :
    /\ c # d
    /\ req[c] = req[d]
    /\ Answered(c) /\ Answered(d)
    /\ note[c] # NoRec /\ note[d] # NoRec
    /\ note[c].processing_status = "pending"
    /\ note[d].processing_status = "pending"
    /\ Cardinality(Ops(c, "openai")) = 1
    /\ Cardinality(Ops(d, "openai")) = 1
    /\ Cardinality(OkOps(c, "increment")) = 1
    /\ Cardinality(OkOps(d, "increment")) = 1
    /\ profiles[note[c].user_id].monthly_note_count >= 2

\* ---------------------------------------------------------------- C5
\* C5: a call whose limit check reports limit_reached never calls the
\* completion service and never increments the counter; its acknowledged
\* write stores status failed with the original text followed by the limit
\* message, and it answers 429 LIMIT_REACHED with the monthly count and the
\* tier the limit check reported.
C5_LimitState ==
  \A c \in Calls :
    (userLimits[c] # NoRec /\ userLimits[c].limit_reached)
    => /\ Ops(c, "openai") = {}
       /\ Ops(c, "increment") = {}
       /\ result[c] = NoRec
       /\ (Answered(c) /\ ~thrown[c])
          => /\ resp[c].code = 429
             /\ resp[c].error = "LIMIT_REACHED"
             /\ resp[c].data.monthlyCount = userLimits[c].monthly_note_count
             /\ resp[c].data.subscriptionTier =
                  profiles[note[c].user_id].subscription_tier

C5_LimitStep ==
  \A c \in Calls :
    /\ (pc[c] = "checkUserLimits" /\ pc'[c] = "updateLimit")
       => /\ profiles[note[c].user_id].monthly_note_count >= FreeLimit
          /\ userLimits'[c].monthly_note_count =
               profiles[note[c].user_id].monthly_note_count
    /\ (pc[c] = "updateLimit" /\ pc'[c] = "done")
       => /\ notes'[req[c]].processing_status = "failed"
          /\ notes'[req[c]].processed_text =
               notes[req[c]].original_text \o LimitMessage
          /\ notes'[req[c]].tokens_used = notes[req[c]].tokens_used
          /\ profiles' = profiles

C5_LimitReached == []C5_LimitState /\ [][C5_LimitStep]_vars

C5_Witness ==
  \E c \in Calls :
    /\ Answered(c)
    /\ resp[c].code = 429
    /\ Statuses(req[c]) = "failed"
    /\ notes[req[c]].processed_text = notes[req[c]].original_text \o LimitMessage
    /\ Len(notes[req[c]].original_text) > 0

\* ---------------------------------------------------------------- C6
\* C6: the acknowledged final write of a successful completion stores the
\* processed text, token count, elapsed time and status completed; the
\* increment that follows adds one to the owner's counter only; a call
\* attempts the increment at most once and only after a successful
\* completion, and a call answered as processed has incremented.
C6_IncrementState ==
  \A c \in Calls :
    /\ Cardinality(Ops(c, "increment")) <= 1
    /\ Ops(c, "increment") # {} => (result[c] # NoRec /\ result[c].success)
    /\ (Answered(c) /\ resp[c].code = 200 /\ result[c] # NoRec /\ result[c].success)
       => Cardinality(OkOps(c, "increment")) = 1

C6_SuccessStep ==
  \A c \in Calls :
    /\ (pc[c] = "updateFinal" /\ ~thrown'[c] /\ pc'[c] # "updateFinal" /\ result[c].success)
       => /\ pc'[c] = "increment"
          /\ notes'[req[c]].processed_text = result[c].processedText
          /\ notes'[req[c]].tokens_used = result[c].tokensUsed
          /\ notes'[req[c]].processing_time = result[c].processingTime
          /\ notes'[req[c]].processing_status = "completed"
    /\ (pc[c] = "increment" /\ pc'[c] = "done" /\ ~thrown'[c])
       => \A u \in Users :
            profiles'[u].monthly_note_count =
              profiles[u].monthly_note_count
                + (IF u = notes[req[c]].user_id THEN 1 ELSE 0)

C6_SuccessPersistsAndCounts == []C6_IncrementState /\ [][C6_SuccessStep]_vars

C6_Witness ==
  \E c \in Calls :
    /\ Answered(c)
    /\ resp[c].code = 200
    /\ result[c] # NoRec
    /\ result[c].success
    /\ Statuses(req[c]) = "completed"
    /\ notes[req[c]].processed_text = result[c].processedText
    /\ Cardinality(OkOps(c, "increment")) = 1

\* ---------------------------------------------------------------- C7
\* C7: after a failed completion the acknowledged final write stores status
\* failed and token count 0, and the call answers 200 with success true,
\* openaiSuccess false and tokensUsed 0.
C7_FailureState ==
  \A c \in Calls :
    (result[c] # NoRec /\ ~result[c].success)
    => /\ result[c].tokensUsed = 0
       /\ (Answered(c) /\ ~thrown[c])
          => /\ resp[c].code = 200
             /\ resp[c].success
             /\ resp[c].data.openaiSuccess = FALSE
             /\ resp[c].data.processingStatus = "failed"
             /\ resp[c].data.tokensUsed = 0

C7_FailureStep ==
  \A c \in Calls :
    (pc[c] = "updateFinal" /\ ~thrown'[c] /\ pc'[c] # "updateFinal" /\ ~result[c].success)
    => /\ pc'[c] = "done"
       /\ notes'[req[c]].processing_status = "failed"
       /\ notes'[req[c]].tokens_used = 0
       /\ notes'[req[c]].processed_text = result[c].processedText

C7_CompletionFailureAbsorbed == []C7_FailureState /\ [][C7_FailureStep]_vars

C7_Witness ==
  \E c \in Calls :
    /\ Answered(c)
    /\ result[c] # NoRec
    /\ ~result[c].success
    /\ resp[c].code = 200
    /\ Statuses(req[c]) = "failed"
    /\ notes[req[c]].tokens_used = 0

\* ---------------------------------------------------------------- C8
CompletionFailed(r) ==
  IF "success" \in DOMAIN r THEN ~r.success ELSE r.error # "none"

\* C8: a call whose completion failed does not increment the owner's counter.
C8_NoIncrementOnFailure ==
  \A c \in Calls :
    (result[c] # NoRec /\ CompletionFailed(result[c]))
    => OkOps(c, "increment") = {}

\* ---------------------------------------------------------------- C9
ReturnedFor(id, codes) ==
  \E c \in Calls : Answered(c) /\ req[c] = id /\ resp[c].code \in codes

StatusAnswered ==
  statusReq \in NoteIds /\ statusResp = NoRec /\ statusResp' # NoRec
  /\ statusResp'.code = 200

\* C9 as stated: once a processNote call for the note has returned its
\* response, getProcessingStatus reports completed or failed.
C9_StatusAfterProcess ==
  [][(StatusAnswered /\ ReturnedFor(statusReq, {200, 429, 500}))
     => statusResp'.processingStatus \in {"completed", "failed"}]_vars

\* C9 amended: once a processNote call for the note has returned 200 or 429,
\* getProcessingStatus reports the stored status, which is not pending.
C9_NotPendingAfterAnswer ==
  [][(StatusAnswered /\ ReturnedFor(statusReq, {200, 429}))
     => /\ statusResp'.processingStatus = Statuses(statusReq)
        /\ statusResp'.processingStatus # "pending"]_vars

C9_Witness ==
  /\ statusReq \in NoteIds
  /\ statusResp # NoRec
  /\ statusResp.code = 200
  /\ statusResp.processingStatus \in {"completed", "failed"}
  /\ ReturnedFor(statusReq, {200, 429})

\* ---------------------------------------------------------------- C10
\* C10: a rejected operation of processNote always leads to the catch block:
\* the call attempts exactly one update to failed, whose own rejection is
\* dropped, and answers 500 PROCESSING_ERROR; no other path answers 500.
FailedOps(c) == { i \in 1..Len(log[c]) : ~log[c][i].ok /\ log[c][i].op \notin {"openai", "catchUpdate"} }

C10_CatchState ==
  \A c \in Calls :
    /\ thrown[c] <=> FailedOps(c) # {}
    /\ thrown[c] => pc[c] \in {"catchUpdate", "done"}
    /\ Cardinality(FailedOps(c)) <= 1
    /\ (thrown[c] /\ Answered(c))
       => /\ resp[c] = [code |-> 500, success |-> FALSE,
                        error |-> "PROCESSING_ERROR", data |-> NoRec]
          /\ Cardinality(Ops(c, "catchUpdate")) = 1
          /\ log[c][Len(log[c])].op = "catchUpdate"
          /\ log[c][Len(log[c])].arg = "failed"
    /\ (Answered(c) /\ resp[c].code = 500) => thrown[c]
    /\ ~thrown[c] => Ops(c, "catchUpdate") = {}

C10_CatchStep ==
  \A c \in Calls :
    (pc[c] = "catchUpdate" /\ pc'[c] = "done")
    => \/ notes' = notes
       \/ notes' = [notes EXCEPT ![req[c]].processing_status = "failed"]

C10_ExceptionsCaught == []C10_CatchState /\ [][C10_CatchStep]_vars

\* The best-effort update was itself rejected and the call still answered 500.
C10_Witness ==
  \E c \in Calls :
    /\ Answered(c)
    /\ thrown[c]
    /\ resp[c].code = 500
    /\ ~log[c][Len(log[c])].ok
    /\ Ops(c, "increment") # {}

\* ---------------------------------------------------------------- C11
Writes(c) == OkOps(c, "update")

\* The statuses of the acknowledged note writes of a call, in order.
RECURSIVE WrittenFrom(_, _)
WrittenFrom(c, i) ==
  IF i > Len(log[c]) THEN <<>>
  ELSE (IF log[c][i].op = "update" /\ log[c][i].ok THEN <<log[c][i].arg>> ELSE <<>>)
       \o WrittenFrom(c, i + 1)

Written(c) == WrittenFrom(c, 1)

SawCompleted(c) == note[c] # NoRec /\ note[c].processing_status = "completed"

\* C11 as stated: an answered call has made two note writes on the success and
\* fallback paths and one note write on the already-completed and
\* limit-reached paths.
C11_WritesPerPath ==
  \A c \in Calls :
    (Answered(c) /\ ~thrown[c] /\ note[c] # NoRec)
    => /\ result[c] # NoRec => Cardinality(Writes(c)) = 2
       /\ resp[c].code = 429 => Cardinality(Writes(c)) = 1
       /\ SawCompleted(c) => Cardinality(Writes(c)) = 1

\* C11 amended: two note writes on the success and fallback paths
\* (processing, then the final status), one on the limit-reached path
\* (failed), none on the already-completed path.
C11_WritesPerPathAmended ==
  \A c \in Calls :
    (Answered(c) /\ ~thrown[c] /\ note[c] # NoRec)
    => /\ result[c] # NoRec => Written(c) = <<"processing", FinalStatus(result[c])>>
       /\ resp[c].code = 429 => Written(c) = <<"failed">>
       /\ SawCompleted(c) => Written(c) = <<>>
       /\ result[c] # NoRec \/ resp[c].code = 429 \/ SawCompleted(c)

\* One call went through the success path with two writes and the next one
\* was answered from the stored result without a write.
C11_Witness ==
  \E c \in Calls, d \in Calls :
    /\ Answered(c) /\ Answered(d) /\ ~thrown[c] /\ ~thrown[d]
    /\ result[c] # NoRec /\ result[c].success
    /\ Written(c) = <<"processing", "completed">>
    /\ SawCompleted(d)
    /\ Written(d) = <<>>

\* ---------------------------------------------------------------- C12
\* C12: a call for an id the store has no row for is answered 404
\* NOTE_NOT_FOUND once the lookup returns, and no step of such a call changes
\* a note or a counter or reaches the completion service.
C12_NotFoundState ==
  \A c \in Calls :
    /\ (Answered(c) /\ req[c] = AbsentId /\ ~thrown[c])
       => /\ resp[c] = [code |-> 404, success |-> FALSE,
                        error |-> "NOTE_NOT_FOUND", data |-> NoRec]
          /\ log[c] = << [op |-> "getNoteById", arg |-> AbsentId, ok |-> TRUE] >>
    /\ req[c] = AbsentId
       => /\ Ops(c, "openai") = {} /\ Ops(c, "increment") = {}
          /\ OkOps(c, "update") = {} /\ OkOps(c, "catchUpdate") = {}
          /\ note[c] = NoRec /\ result[c] = NoRec
    /\ (Answered(c) /\ resp[c].code = 404) => req[c] \notin NoteIds

C12_NotFoundStep ==
  \A c \in Calls :
    (req[c] = AbsentId /\ pc'[c] # pc[c])
    => notes' = notes /\ profiles' = profiles

C12_AbsentNoteNotFound == []C12_NotFoundState /\ [][C12_NotFoundStep]_vars

C12_Witness ==
  \E c \in Calls :
    /\ Answered(c)
    /\ req[c] = AbsentId
    /\ resp[c].code = 404
    /\ resp[c].error = "NOTE_NOT_FOUND"

\* ---------------------------------------------------------------- C13
\* C13: a call makes at most one completion call; the step that returns a
\* failed completion goes on to the final write with the fallback result.
C13_OneAttempt ==
  \A c \in Calls :
    /\ Cardinality(Ops(c, "openai")) <= 1
    /\ Cardinality(Ops(c, "getNoteById")) <= 1
    /\ Cardinality(Ops(c, "checkUserLimits")) <= 1
    /\ result[c] # NoRec => Cardinality(Ops(c, "openai")) = 1
    /\ (result[c] # NoRec /\ ~result[c].success)
       => /\ pc[c] \in {"updateFinal", "catchUpdate", "done"}
          /\ result[c] \in OpenAIFailures(note[c].original_text, note[c].note_type)

C13_NoRetryStep ==
  \A c \in Calls :
    (pc[c] = "openai" /\ (pc'[c] # "openai" \/ result'[c] # result[c]))
    => /\ pc'[c] = "updateFinal"
       /\ Cardinality({ i \in 1..Len(log'[c]) : log'[c][i].op = "openai" }) = 1

C13_NoRetries == []C13_OneAttempt /\ [][C13_NoRetryStep]_vars

C13_Witness ==
  \E c \in Calls :
    /\ Answered(c)
    /\ result[c] # NoRec
    /\ ~result[c].success
    /\ Cardinality(Ops(c, "openai")) = 1
    /\ resp[c].code = 200

\* ---------------------------------------------------------------- C14
SawFailed(c) == note[c] # NoRec /\ note[c].processing_status = "failed"

\* C14: a call whose lookup finds the note failed is not answered from the
\* stored result: it checks the limit and, when the limit is not reached and
\* no operation is rejected, writes processing, calls the completion service
\* and writes the final status.
C14_FailedIsReprocessed ==
  \A c \in Calls :
    SawFailed(c)
    => /\ pc[c] # "getNoteById"
       /\ Answered(c) => Ops(c, "checkUserLimits") # {}
       /\ (Answered(c) /\ ~thrown[c])
          => \/ /\ userLimits[c].limit_reached
                /\ resp[c].code = 429
             \/ /\ ~userLimits[c].limit_reached
                /\ resp[c].code = 200
                /\ "openaiSuccess" \in DOMAIN resp[c].data
                /\ Cardinality(Ops(c, "openai")) = 1
                /\ Written(c) = <<"processing", FinalStatus(result[c])>>

\* A note read as failed has been processed again and is now completed.
C14_Witness ==
  \E c \in Calls :
    /\ SawFailed(c)
    /\ Answered(c)
    /\ resp[c].code = 200
    /\ result[c].success
    /\ Statuses(req[c]) = "completed"

\* ------------------------------------------------------------------------
\* Front door: what a step that received a request looks like.  A window
\* reset only empties a counter and leaves the last exchange alone.
Grew(f, g) == f # g /\ \A x \in DOMAIN f : g[x] >= f[x]

ReceiveStep ==
  fd' # fd \/ Grew(globalHits, globalHits') \/ Grew(procHits, procHits')

AuthRoutes == {"process", "status"}
LimiterStages == {"globalRateLimit", "processingRateLimit"}
SecretBucket == <<"api_key", SecretKey>>

\* C15 (as stated): every request to an authenticated route with no key is
\* answered 401 MISSING_API_KEY, and every one with a key different from the
\* shared secret 401 INVALID_API_KEY.
C15_KeyChecked ==
  fd.route \in AuthRoutes =>
    /\ ~Truthy(ExtractKey(fd)) => fd.status = 401 /\ fd.error = "MISSING_API_KEY"
    /\ (Truthy(ExtractKey(fd)) /\ ExtractKey(fd) # secret) =>
         fd.status = 401 /\ fd.error = "INVALID_API_KEY"

\* C15 (amended): a request to an authenticated route that no rate limiter
\* rejected is answered by apiKeyAuth with 401 MISSING_API_KEY when neither
\* header yields a non-empty key, with 500 CONFIG_ERROR when it has a key but
\* the server has no secret, with 401 INVALID_API_KEY when its key is not
\* equal to the secret, and reaches the handler exactly when its key equals
\* the secret.
C15_KeyCheckedAfterLimiters ==
  (fd.route \in AuthRoutes /\ fd.stage \notin LimiterStages) =>
    /\ ~Truthy(ExtractKey(fd)) =>
         fd.stage = "apiKeyAuth" /\ fd.status = 401 /\ fd.error = "MISSING_API_KEY"
    /\ (Truthy(ExtractKey(fd)) /\ ~Truthy(secret)) =>
         fd.stage = "apiKeyAuth" /\ fd.status = 500 /\ fd.error = "CONFIG_ERROR"
    /\ (Truthy(ExtractKey(fd)) /\ Truthy(secret) /\ ExtractKey(fd) # secret) =>
         fd.stage = "apiKeyAuth" /\ fd.status = 401 /\ fd.error = "INVALID_API_KEY"
    /\ fd.stage = Handler(fd.route) <=> (Truthy(secret) /\ ExtractKey(fd) = secret)

\* A wrong x-api-key beside a correct Authorization header is answered
\* INVALID_API_KEY, with a secret configured and the limiters passed.
C15_Witness ==
  /\ fd.route = "status"
  /\ fd.xkey = OtherKey
  /\ fd.auth = <<Bearer>> \o SecretKey
  /\ secret = SecretKey
  /\ fd.status = 401
  /\ fd.error = "INVALID_API_KEY"
  /\ globalPassed[fd.ip] > 1

\* C16 (as stated): at most ProcessingMax requests of a key's window pass the
\* processing limiter, and every later request to POST /api/process of that
\* key is answered 429 PROCESSING_RATE_LIMIT without reaching the processor.
C16_PassedAtMostMax == \A k \in ProcessingKeys : procPassed[k] <= ProcessingMax

C16_LaterOnesLimitedStep ==
  (ReceiveStep /\ fd'.route = "process"
     /\ procHits[ProcessingKey(fd')] >= ProcessingMax) =>
    /\ fd'.status = 429
    /\ fd'.error = "PROCESSING_RATE_LIMIT"
    /\ fd'.stage # "processNote"

C16_EleventhLimited == []C16_PassedAtMostMax /\ [][C16_LaterOnesLimitedStep]_vars

\* C16 (amended): at most ProcessingMax requests of a key's window pass the
\* processing limiter; a later request of that key which the global limiter
\* lets through is answered 429 PROCESSING_RATE_LIMIT at the processing
\* limiter, and a request passes the processing limiter only while fewer than
\* ProcessingMax were counted for its key.  A keyless request is counted for
\* its IP and never for a key.
C16_LimitedUnlessGlobalStep ==
  (ReceiveStep /\ fd'.route = "process" /\ fd'.stage # "globalRateLimit") =>
    /\ procHits[ProcessingKey(fd')] >= ProcessingMax =>
         /\ fd'.status = 429
         /\ fd'.error = "PROCESSING_RATE_LIMIT"
         /\ fd'.stage = "processingRateLimit"
    /\ procHits[ProcessingKey(fd')] < ProcessingMax =>
         fd'.stage \in {"apiKeyAuth", "processNote"}
    /\ (fd'.xkey = Undefined /\ fd'.auth = Undefined) =>
         \A k \in ProcessingKeys \ {<<"ip", <<fd'.ip>> >>} :
           procHits'[k] = procHits[k]

C16_EleventhLimitedUnlessGlobal ==
  []C16_PassedAtMostMax /\ [][C16_LimitedUnlessGlobalStep]_vars

\* The secret's window is full and the last request was the one too many.
C16_Witness ==
  /\ fd.route = "process"
  /\ ExtractKey(fd) = SecretKey
  /\ fd.status = 429
  /\ fd.error = "PROCESSING_RATE_LIMIT"
  /\ procPassed[SecretBucket] = ProcessingMax
  /\ procHits[SecretBucket] = ProcessingMax + 1

\* C17: at most GlobalMax requests of an IP's window pass the global limiter,
\* whatever their routes; every request counts for its own IP only; the ones
\* beyond GlobalMax are answered 429 RATE_LIMIT_EXCEEDED and leave the
\* processing limiter's counts as they were.
C17_PassedAtMostMax == \A i \in Ips : globalPassed[i] <= GlobalMax

C17_GlobalStep ==
  ReceiveStep =>
    /\ globalHits' = [globalHits EXCEPT ![fd'.ip] = Bump(@, GlobalMax)]
    /\ globalHits[fd'.ip] >= GlobalMax <=> fd'.stage = "globalRateLimit"
    /\ fd'.stage = "globalRateLimit" =>
         /\ fd'.status = 429
         /\ fd'.error = "RATE_LIMIT_EXCEEDED"
         /\ procHits' = procHits
         /\ procPassed' = procPassed

C17_GlobalLimiter == []C17_PassedAtMostMax /\ [][C17_GlobalStep]_vars

\* The first client used up its window, partly on the health route, and its
\* processing request was turned away while its key had room left; the
\* second client was still served.
C17_Witness ==
  /\ fd.ip = "ip1"
  /\ fd.route = "process"
  /\ fd.stage = "globalRateLimit"
  /\ globalPassed["ip1"] = GlobalMax
  /\ procHits[SecretBucket] < ProcessingMax
  /\ procPassed[SecretBucket] > 0
  /\ globalPassed["ip2"] > 0

\* C18 (as stated): a request presenting the valid key is let through by the
\* rate limiting as long as its IP has made fewer than the authenticated
\* limit of requests in the window.
C18_HigherLimitStep ==
  (ReceiveStep /\ Truthy(secret) /\ ExtractKey(fd') = secret
     /\ globalHits[fd'.ip] <= GlobalMax
     /\ globalHits[fd'.ip] < authenticatedRateLimit(TRUE)) =>
    fd'.stage # "globalRateLimit"

C18_HigherLimitWithKey == [][C18_HigherLimitStep]_vars

\* ------------------------------------------------------------------------
\* needle occurs in hay as a contiguous piece.
Contains(hay, needle) ==
  \E i \in 0..(Len(hay) - Len(needle)) :
    SubSeq(hay, i + 1, i + Len(needle)) = needle

\* The call stored the fallback text of a failed completion and answered.
StoredFallback(c) ==
  /\ Answered(c)
  /\ result[c] # NoRec
  /\ ~result[c].success
  /\ resp[c].code = 200

HasPunct(s) == \E i \in 1..Len(s) : s[i] \in {".", "!", "?"}

EndsWith(s, t) == Len(s) >= Len(t) /\ SubSeq(s, Len(s) - Len(t) + 1, Len(s)) = t

\* The word that tells the templates apart.
TemplateWord(noteType) ==
  CASE noteType = "meeting" -> "Meeting"
    [] noteType = "todo"    -> "Task"
    [] noteType = "idea"    -> "Creative"
    [] OTHER                -> "Note\n\n"

\* C19 (as stated): after every completion failure the stored fallback text
\* contains the note's original text verbatim as a contiguous piece.
C19_FallbackContainsOriginal ==
  \A c \in Calls :
    StoredFallback(c) =>
      Contains(notes[req[c]].processed_text, note[c].original_text)

\* C19 (amended): after every completion failure the note is stored failed
\* with no tokens and its category's template (the general one for every
\* other category) around the text with the blanks at its ends removed; for
\* every category but todo that trimmed text is in it verbatim, for todo it
\* is in it with each of . ! ? replaced by a line break and a bullet, hence
\* verbatim when it has none of them.
C19_FallbackWrapsTrimmed ==
  \A c \in Calls :
    StoredFallback(c) =>
      LET row    == notes[req[c]]
          stored == row.processed_text
          clean  == Trim(note[c].original_text)
          ty     == note[c].note_type
      IN
      /\ row.processing_status = "failed"
      /\ row.tokens_used = 0
      /\ stored[1] = "#" /\ stored[3] = TemplateWord(ty)
      /\ EndsWith(stored, FallbackTail)
      /\ Len(stored) = Len(clean) + 2 * Cardinality({i \in 1..Len(clean) :
                                                      ty = "todo" /\ clean[i] = "."})
                       + Len(FallbackTail) + (CASE ty \in {"meeting", "idea"} -> 5
                                                [] ty = "todo" -> 7
                                                [] OTHER -> 3)
      /\ ty # "todo" => Contains(stored, clean)
      /\ ty = "todo" =>
           /\ Contains(stored, ReplacePunct(clean))
           /\ ~HasPunct(clean) => Contains(stored, clean)

\* A todo note "x.x" was stored as a list of two bullets: the text itself is
\* not in it.
C19_Witness ==
  /\ StoredFallback("c1")
  /\ note["c1"].note_type = "todo"
  /\ note["c1"].original_text = <<"x", ".", "x">>
  /\ notes["n1"].processed_text =
       <<"#", " ", "Task", " ", "List\n\n", "*", " ", "x", "\n", "*", " ", "x">>
         \o FallbackTail

\* The call, for a note of a category without prompt, wrote processing and
\* is past its await of openaiService.processNote.
PastOpenAI(c) ==
  /\ \E i \in OkOps(c, "update") : log[c][i].arg = "processing"
  /\ pc[c] # "openai"

UnknownCategory(c) == PastOpenAI(c) /\ note[c].note_type \notin Prompts

GeneralFallback(text) == <<"#", " ", "Note\n\n">> \o text \o FallbackTail

\* C20 (as stated): for every category outside the four, the general template
\* is selected, a warning is recorded, and the call goes on to the completion
\* service and, on failure, to the general fallback text.
C20_UnknownCategoryGeneral ==
  \A c \in Calls :
    UnknownCategory(c) =>
      /\ result[c] # NoRec
      /\ result[c].noteType = "general"
      /\ Cardinality(Ops(c, "warn")) = 1
      /\ Cardinality(Ops(c, "openai")) = 1
      /\ ~result[c].success =>
           result[c].processedText = GeneralFallback(Trim(note[c].original_text))

\* C20 (amended): for every category outside the four and every text that is
\* not blank, the general template is selected, one warning is recorded, and
\* the call goes on to the completion service and, on failure, to the general
\* fallback text.  For a blank text the text is rejected before the category
\* is looked at: no warning, no template selected, and the general fallback
\* text all the same.  No call is rejected for its category, and no warning is
\* recorded for one of the four categories.
C20_UnknownCategoryGeneralIfText ==
  \A c \in Calls :
    /\ UnknownCategory(c) =>
         LET clean == Trim(note[c].original_text) IN
         /\ result[c] # NoRec
         /\ Cardinality(Ops(c, "openai")) = 1
         /\ ~result[c].success => result[c].processedText = GeneralFallback(clean)
         /\ clean # << >> =>
              /\ result[c].noteType = "general"
              /\ Cardinality(Ops(c, "warn")) = 1
         /\ clean = << >> =>
              /\ result[c].noteType = note[c].note_type
              /\ Ops(c, "warn") = {}
              /\ ~result[c].success
    /\ (PastOpenAI(c) /\ note[c].note_type \in Prompts) => Ops(c, "warn") = {}

\* A note of category recipe with a text was completed under the general
\* template, with its warning.
C20_Witness ==
  /\ Answered("c1")
  /\ note["c1"] # NoRec
  /\ note["c1"].note_type = "recipe"
  /\ Trim(note["c1"].original_text) = <<"x">>
  /\ result["c1"] # NoRec
  /\ result["c1"].success
  /\ result["c1"].noteType = "general"
  /\ Ops("c1", "warn") # {}
  /\ notes["n1"].processing_status = "completed"

\* ------------------------------------------------------------------------
\* a holds everything b holds and something else.
MoreData(a, b) == DOMAIN b \subseteq DOMAIN a /\ a # b

\* C21 (as stated): no stats request is refused for its key, and the answer to
\* a request with the valid key holds more data than the answer the same
\* store state gives to a request without it.
C21_RicherStep ==
  (stats' # stats /\ stats'.response.code = 200) =>
    /\ stats'.authenticated <=> ExtractKey(stats'.request) = secret
    /\ stats'.authenticated =>
         MoreData(stats'.response.data, getStats(FALSE, stats'.health, notes).data)

C21_RicherWhenAuthenticated == [][C21_RicherStep]_vars

\* ---------------------------------------------------------------- C22
\* The status the door gave the last request to POST /api/process, by what
\* stopped it: a limiter 429; apiKeyAuth 401 for a missing or wrong key and
\* 500 when the server has no secret to compare a presented key with.
DoorStatusMatches ==
  (fd.route = "process" /\ fd.stage # "processNote")
  => /\ fd.stage \in LimiterStages \cup {"apiKeyAuth"}
     /\ fd.stage \in LimiterStages => fd.status = 429
     /\ fd.stage = "apiKeyAuth"
        => fd.status = (IF ~Truthy(ExtractKey(fd)) THEN 401
                        ELSE IF ~Truthy(secret) THEN 500
                        ELSE 401)
     /\ (fd.stage = "apiKeyAuth" /\ Truthy(secret) /\ Truthy(ExtractKey(fd)))
        => ExtractKey(fd) # secret

\* The status processNote gave, by the outcome of the call.
HandlerStatusMatches(c) ==
  /\ pc[c] \notin {"idle", "done"} => resp[c] = NoRec
  /\ Answered(c)
     => /\ resp[c] # NoRec
        /\ resp[c].code =
             (IF req[c] = NoId THEN 400
              ELSE IF thrown[c] THEN 500
              ELSE IF note[c] = NoRec THEN 404
              ELSE IF SawCompleted(c) THEN 200
              ELSE IF userLimits[c].limit_reached THEN 429
              ELSE 200)
        /\ req[c] = NoId => log[c] = <<>>
        /\ (resp[c].code = 200 /\ ~SawCompleted(c))
           => /\ result[c] # NoRec
              /\ Written(c) = <<"processing", FinalStatus(result[c])>>
        /\ resp[c].code = 404 => req[c] = AbsentId

\* One response: a request the door answered does not enter processNote, and
\* what processNote answered is not answered again.
OneResponseStep ==
  /\ (fd' # fd /\ fd'.stage # "processNote")
     => /\ pc' = pc /\ resp' = resp /\ log' = log
        /\ notes' = notes /\ profiles' = profiles
  /\ (fd' # fd /\ fd'.stage = "processNote") => pc["c1"] = "idle" /\ pc'["c1"] # "idle"
  /\ \A c \in Calls : resp[c] # NoRec => resp'[c] \in {resp[c], NoRec}
  /\ \A c \in Calls : (resp[c] = NoRec /\ resp'[c] # NoRec) => pc'[c] = "done"

WellFormed(c) == req[c] # NoId /\ reqType[c] \in ValidTypes

C23_StoreUntouchedStep ==
  testMode.store => notes' = notes /\ profiles' = profiles

BeforeOpenAI(c) ==
  /\ Len(log[c]) >= 3
  /\ log[c][1] = Op("getNoteById", req[c], TRUE)
  /\ log[c][2] = Op("checkUserLimits", note[c].user_id, TRUE)
  /\ log[c][3] = Op("update", "processing", TRUE)
  /\ note[c] # NoRec /\ note[c].processing_status # "completed"
  /\ userLimits[c] # NoRec /\ ~userLimits[c].limit_reached

FailedBeforeOpenAI(c) ==
  \E i \in 1..Len(log[c]) :
    /\ ~log[c][i].ok
    /\ \/ log[c][i].op = "checkUserLimits"
       \/ log[c][i].op = "update" /\ log[c][i].arg = "processing"

C24_OrderState ==
  \A c \in Calls :
    /\ (pc[c] = "openai" \/ Ops(c, "openai") # {}) => BeforeOpenAI(c)
    /\ \A i \in Ops(c, "openai") : i > 3
    /\ FailedBeforeOpenAI(c) => Ops(c, "openai") = {} /\ pc[c] # "openai"

C24_OrderStep ==
  \A c \in Calls :
    (pc[c] # "openai" /\ pc'[c] = "openai")
    => /\ pc[c] = "updateProcessing"
       /\ log'[c] = Append(log[c], Op("update", "processing", TRUE))
       /\ notes'[req[c]].processing_status = "processing"

\* C24: a call reaches the completion service only after its lookup returned
\* a note that is not completed, then its limit check returned not reached,
\* then its write of status processing was acknowledged; a call whose limit
\* check or processing write failed never calls the completion service.
C24_CompletionAfterChecks == []C24_OrderState /\ [][C24_OrderStep]_vars

\* One call has called the completion service after the three steps, and
\* another one, whose write of processing was rejected, was answered
\* without calling it.
C24_Witness ==
  \E c \in Calls, d \in Calls :
    /\ Ops(c, "openai") # {} /\ BeforeOpenAI(c)
    /\ Answered(d) /\ Ops(d, "openai") = {}
    /\ \E i \in 1..Len(log[d]) : log[d][i] = Op("update", "processing", FALSE)

\* ---------------------------------------------------------------- C25
\* C25: in every interleaving of processNote calls, no user's monthly counter
\* exceeds the limit at which the limit check reports limit_reached.
C25_LimitHoldsUnderConcurrency ==
  \A u \in Users : profiles[u].monthly_note_count <= FreeLimit

\* ---------------------------------------------------------------- C26
Handlers == {"processNote", "getProcessingStatus"}

\* The key a request presents: x-api-key if it has one, else what is left of
\* the Authorization header when 'Bearer ' is taken out.
PresentedKey(x) ==
  IF Truthy(x.xkey) THEN x.xkey
  ELSE IF x.auth = Undefined THEN Undefined
  ELSE RemoveFirst(x.auth, Bearer)

C26_HandlerState ==
  /\ fd.stage \in Handlers
     => /\ secret # Undefined /\ secret # <<>>
        /\ PresentedKey(fd) = secret
        /\ fd.stage = Handler(fd.route)
  /\ (secret = Undefined \/ secret = <<>>) => fd.stage \notin Handlers

C26_HandlerStep ==
  (ReceiveStep /\ fd'.stage \in Handlers)
  => /\ PresentedKey(fd') = secret
     /\ Truthy(secret)
     /\ fd'.route \in AuthRoutes

\* C26: processNote and getProcessingStatus are reached only by requests
\* whose presented key equals the configured, non-empty secret; on a server
\* without secret no request reaches them.
C26_HandlersOnlyWithSecret == []C26_HandlerState /\ [][C26_HandlerStep]_vars

\* A server without secret has answered a request that presented a key, and
\* it was stopped by apiKeyAuth.
C26_WitnessNoSecret ==
  /\ secret = Undefined
  /\ fd.route \in AuthRoutes
  /\ Truthy(PresentedKey(fd))
  /\ fd.stage = "apiKeyAuth"
  /\ fd.status = 500

\* A request with the secret in its Authorization header has reached the
\* status handler.
C26_Witness ==
  /\ secret = SecretKey
  /\ fd.stage = "getProcessingStatus"
  /\ fd.xkey = Undefined
  /\ fd.auth = <<Bearer>> \o SecretKey

\* ---------------------------------------------------------------- C27
BadKey(x) == ~Truthy(PresentedKey(x)) \/ PresentedKey(x) # secret

\* The bucket a request to the processing route is keyed to.
BucketOf(x) ==
  IF Truthy(PresentedKey(x)) THEN <<"api_key", PresentedKey(x)>> ELSE <<"ip", <<x.ip>> >>

\* C27 (as stated): every request to POST /api/process with a missing or
\* invalid key takes a slot of its bucket, and every request that finds its
\* bucket full is answered 429, not 401, whatever its key.
C27_SlotStep ==
  (ReceiveStep /\ fd'.route = "process")
  => /\ (BadKey(fd') /\ procHits[BucketOf(fd')] <= ProcessingMax)
        => procHits'[BucketOf(fd')] = procHits[BucketOf(fd')] + 1
     /\ procHits[BucketOf(fd')] >= ProcessingMax => fd'.status = 429

C27_LimiterBeforeAuth == [][C27_SlotStep]_vars

\* C27 amended: the same for the requests the global limiter lets through;
\* one that the global limiter rejects takes no slot and is answered 429
\* RATE_LIMIT_EXCEEDED.  A request with a bad key that finds room in its
\* bucket is answered by apiKeyAuth after it took its slot.
C27_SlotUnlessGlobalStep ==
  (ReceiveStep /\ fd'.route = "process")
  => /\ (fd'.stage # "globalRateLimit" /\ procHits[BucketOf(fd')] <= ProcessingMax)
        => procHits'[BucketOf(fd')] = procHits[BucketOf(fd')] + 1
     /\ fd'.stage = "globalRateLimit"
        => procHits' = procHits /\ fd'.status = 429 /\ fd'.error = "RATE_LIMIT_EXCEEDED"
     /\ (fd'.stage # "globalRateLimit" /\ procHits[BucketOf(fd')] >= ProcessingMax)
        => /\ fd'.stage = "processingRateLimit"
           /\ fd'.status = 429 /\ fd'.error = "PROCESSING_RATE_LIMIT"
     /\ (fd'.stage # "globalRateLimit" /\ procHits[BucketOf(fd')] < ProcessingMax
           /\ BadKey(fd'))
        => fd'.stage = "apiKeyAuth" /\ fd'.status \in {401, 500}

C27_LimiterBeforeAuthUnlessGlobal == [][C27_SlotUnlessGlobalStep]_vars

\* A request without key found its IP's bucket full and was answered 429 by
\* the processing limiter, after ten keyless ones had taken the slots.
C27_Witness ==
  /\ fd.route = "process"
  /\ ~Truthy(PresentedKey(fd))
  /\ fd.stage = "processingRateLimit" /\ fd.status = 429
  /\ procPassed[BucketOf(fd)] = ProcessingMax
  /\ procHits[BucketOf(fd)] = ProcessingMax + 1

\* ---------------------------------------------------------------- C28
NoCallInFlight == \A c \in Calls : pc[c] \in {"idle", "done"}

\* Every counter starts at zero and every user owns one note, so a user's
\* counter is the number of increments that user's note has caused.
IncrementsCausedBy(n) == profiles[OwnerOf(n)].monthly_note_count

\* C28: whenever no processNote call is in flight, every note whose stored
\* status is completed has caused at least one increment of its owner's
\* monthly counter.
C28_CompletedWasCounted ==
  NoCallInFlight
  => \A n \in NoteIds : Statuses(n) = "completed" => IncrementsCausedBy(n) >= 1

\* ---------------------------------------------------------------- C29
\* C29: every note saveNote has written is in the stored list until the user
\* confirms its deletion, however saveNote, loadNotes and deleteNote
\* interleave.
C29_NoSavedNoteLost ==
  \A id \in savedIds \ deletedIds : id \in Ids(storage)

\* ---------------------------------------------------------------- C30
Simulating == platform # "web" /\ isRecording

C30_StopSavesStep ==
  (Simulating /\ ~isRecording') => stopping' # NoRec

\* C30: in simulation mode a started recording gets a non-empty transcript
\* while it continues, and stopping it starts the saving of a note.
C30_SimulationFillsTranscript ==
  /\ Simulating ~> (speechText # <<>> \/ ~isRecording)
  /\ [][C30_StopSavesStep]_vars

TypeOK ==
  /\ \A n \in NoteIds :
       notes[n].processing_status \in {"pending", "processing", "completed", "failed"}
  /\ \A c \in Calls :
       pc[c] \in {"idle", "getNoteById", "checkUserLimits", "updateLimit",
                  "updateProcessing", "openai", "updateFinal", "increment",
                  "catchUpdate", "done"}
  /\ started \in 0..MaxCalls

====
